---------------------------- MODULE Spec2Model ----------------------------
(***************************************************************************)
(* A model of peakdet: the Physio record (samples, sampling rate, history, *)
(* peaks / reject / troughs metadata), the logged operations of            *)
(* operations.py, the history replay of io.py and the interactive editor   *)
(* of editor.py.  Indices are 0-based as in the Python source; a numpy     *)
(* array is a TLA+ sequence, so Idx(s, i) is s[i] of the source.           *)
(***************************************************************************)
EXTENDS Integers, Sequences, FiniteSets, TLC

(***************************************************************************)
(* Bounds of the model.                                                    *)
(***************************************************************************)
DataLen == 5
MaxVal == 2
MaxLog == 2
MaxEdits == 3

(***************************************************************************)
(* numpy / Python helpers                                                  *)
(***************************************************************************)
NaN == -1

Idx(s, i) == s[i + 1]

\* the element of a one-element set
Only(S) == CHOOSE x \in S : TRUE

\* v = <value>; F(v): the value is computed once and then used by F.
With(v, F(_)) == Only({F(x) : x \in {v}})

SeqSet(s) == {s[k] : k \in 1..Len(s)}

Min2(a, b) == IF a < b THEN a ELSE b

Max2(a, b) == IF a > b THEN a ELSE b

\* Python's s[a:b] for a sequence: negative bounds count from the end and
\* both bounds are clamped to the sequence.
SliceBound(n, i) == IF i < 0 THEN Max2(i + n, 0) ELSE Min2(i, n)

Slice(s, a, b) ==
    LET lo == SliceBound(Len(s), a)
        hi == SliceBound(Len(s), b)
    IN  IF lo >= hi THEN << >> ELSE SubSeq(s, lo + 1, hi)

RECURSIVE SortedOfSet(_)
SortedOfSet(S) ==
    IF S = {} THEN << >>
    ELSE LET m == CHOOSE x \in S : \A y \in S : x <= y
         IN  <<m>> \o SortedOfSet(S \ {m})

\* sorted(s): ascending, duplicates kept.
RECURSIVE InsertSorted(_, _)
InsertSorted(s, v) ==
    IF s = << >> THEN <<v>>
    ELSE IF v < Head(s) THEN <<v>> \o s
    ELSE <<Head(s)>> \o InsertSorted(Tail(s), v)

RECURSIVE Sorted(_)
Sorted(s) == IF s = << >> THEN << >> ELSE InsertSorted(Sorted(Tail(s)), Head(s))

\* np.setdiff1d(a, b): the sorted, unique values of a that are not in b.
SetDiff1d(a, b) == SortedOfSet(SeqSet(a) \ SeqSet(b))

\* np.searchsorted(a, v) (side='left'): numpy's binary search, whatever the
\* order of a.
RECURSIVE BinSearchLeft(_, _, _, _)
BinSearchLeft(a, v, lo, hi) ==
    IF lo >= hi THEN lo
    ELSE LET mid == lo + ((hi - lo) \div 2)
         IN  IF Idx(a, mid) < v THEN BinSearchLeft(a, v, mid + 1, hi)
             ELSE BinSearchLeft(a, v, lo, mid)

SearchSorted(a, v) == BinSearchLeft(a, v, 0, Len(a))

SearchSortedAll(a, vs) == [k \in 1..Len(vs) |-> SearchSorted(a, vs[k])]

\* np.insert(arr, idxs, vals): vals[k] goes in front of arr[idxs[k]] of the
\* original array; values with the same index keep their order.
RECURSIVE InsertFrom(_, _, _, _)
InsertFrom(arr, idxs, vals, pos) ==
    LET here == SelectSeq([k \in 1..Len(vals) |-> <<idxs[k], vals[k]>>],
                          LAMBDA p : p[1] = pos)
        vs   == [k \in 1..Len(here) |-> here[k][2]]
    IN  IF pos >= Len(arr) THEN vs
        ELSE vs \o <<Idx(arr, pos)>> \o InsertFrom(arr, idxs, vals, pos + 1)

NpInsert(arr, idxs, vals) == InsertFrom(arr, idxs, vals, 0)

\* np.delete(arr, idxs): IndexError when an index is out of bounds.
NpDeleteOk(arr, idxs) == \A k \in 1..Len(idxs) : idxs[k] < Len(arr)

NpDelete(arr, idxs) ==
    LET keep == {p \in 0..(Len(arr) - 1) : p \notin SeqSet(idxs)}
        ks   == SortedOfSet(keep)
    IN  [k \in 1..Len(ks) |-> Idx(arr, ks[k])]

\* index of the first occurrence of the minimum / maximum of a non-empty
\* sequence: np.argwhere(dp == dp.min())[0] and np.argmax(dp).
ArgMin(s) ==
    CHOOSE i \in 0..(Len(s) - 1) :
        /\ \A j \in 0..(Len(s) - 1) : Idx(s, i) <= Idx(s, j)
        /\ \A j \in 0..(i - 1) : Idx(s, j) > Idx(s, i)

ArgMax(s) ==
    CHOOSE i \in 0..(Len(s) - 1) :
        /\ \A j \in 0..(Len(s) - 1) : Idx(s, i) >= Idx(s, j)
        /\ \A j \in 0..(i - 1) : Idx(s, j) < Idx(s, i)


(***************************************************************************)
(* The Physio record                                                       *)
(***************************************************************************)
\* what an attribute holds that was given no value
None == "None"

\* Physio(data, fs=fs, history=history): no metadata given, so peaks, reject
\* and troughs start empty; no supplementary data and no features either.
Physio(data, fs, history) ==
    [data |-> data, fs |-> fs, history |-> history,
     peaks |-> << >>, reject |-> << >>, troughs |-> << >>,
     suppdata |-> None, features |-> {}]

\* Physio.peaks: _masked.compressed(), the stored peaks that are not in
\* reject, in stored order.
Masked(peaks, reject) == SelectSeq(peaks, LAMBDA p : p \notin SeqSet(reject))

PeaksOf(r) == Masked(r.peaks, r.reject)

Entry(name, args) == [name |-> name, args |-> args]

\* A Python value as _get_call meets it: an integer (kind "int", v = <<n>>),
\* a bool (kind "bool"), a numpy array (kind "array") or a plain list (kind
\* "list").
PyInt(n) == [kind |-> "int", v |-> <<n>>]

PyBool(b) == [kind |-> "bool", v |-> <<b>>]

PyList(s) == [kind |-> "list", v |-> s]

PyArray(s) == [kind |-> "array", v |-> s]

\* v.tolist() for the values that have the attribute
ToList(val) == IF val.kind = "array" THEN [val EXCEPT !.kind = "list"] ELSE val

\* val + n, elementwise on an array
PyAdd(val, n) == [val EXCEPT !.v = [i \in 1..Len(val.v) |-> val.v[i] + n]]

\* utils._get_call(exclude, serializable) called from `function`, whose
\* inspect.getfullargspec is argspec and whose frame holds `locals`: only
\* the names in argspec.args are looked up.
GetCall(function, argspec, locals, exclude, serializable) ==
    [name     |-> function,
     provided |-> [k \in SeqSet(argspec.args) \ exclude |->
                      IF serializable THEN ToList(locals[k]) ELSE locals[k]]]

\* inspect.getfullargspec(get_call_func) of the tests
ArgSpecGetCallFunc ==
    [args       |-> <<"arg1", "arg2">>,
     kwonlyargs |-> <<"kwarg1", "kwarg2", "exclude", "serializable">>]

\* the frame of tests.utils.get_call_func when it calls _get_call: exclude
\* was left at None and is the list the function puts in its place
LocalsGetCallFunc(arg1, arg2, kwarg1, kwarg2, serializable) ==
    [k \in {"arg1", "arg2", "kwarg1", "kwarg2", "exclude", "serializable"} |->
        IF k = "arg1" THEN PyInt(arg1)
        ELSE IF k = "arg2" THEN PyInt(arg2)
        ELSE IF k = "kwarg1"
             THEN IF arg1 > 10 THEN PyAdd(kwarg1, arg1) ELSE kwarg1
        ELSE IF k = "kwarg2"
             THEN IF arg2 > 20 THEN PyAdd(kwarg2, arg2) ELSE kwarg2
        ELSE IF k = "exclude" THEN PyList(<<"exclude", "serializable">>)
        ELSE PyBool(serializable)]

\* tests.utils.get_call_func(arg1, arg2, kwarg1=, kwarg2=, serializable=)
GetCallFunc(arg1, arg2, kwarg1, kwarg2, serializable) ==
    GetCall("get_call_func", ArgSpecGetCallFunc,
            LocalsGetCallFunc(arg1, arg2, kwarg1, kwarg2, serializable),
            {"exclude", "serializable"}, serializable)

\* utils.new_physio_like(ref_physio, data, fs=None, copy_history=True)
NewPhysioLike(ref, data, fs, copyHistory) ==
    Physio(data,
           IF fs = NaN THEN ref.fs ELSE fs,
           IF copyHistory THEN ref.history ELSE << >>)

\* check_physio with copy ignored: the caller's object itself is returned.
CheckPhysioNoCopy(r, ensureFs, copy) ==
    [ok    |-> ~(ensureFs /\ r.fs = NaN),
     err   |-> IF ensureFs /\ r.fs = NaN
               THEN "ValueError: Provided data does not have valid sampling rate."
               ELSE "none",
     rec   |-> r,
     fresh |-> FALSE]

\* utils.check_physio(data, ensure_fs, copy): ok is FALSE when it raises;
\* fresh tells whether the returned object is a new one or `data` itself.
CheckPhysio(r, ensureFs, copy) ==
    [ok    |-> ~(ensureFs /\ r.fs = NaN),
     err   |-> IF ensureFs /\ r.fs = NaN
               THEN "ValueError: Provided data does not have valid sampling rate."
               ELSE "none",
     rec   |-> IF copy THEN NewPhysioLike(r, r.data, NaN, TRUE) ELSE r,
     fresh |-> copy]

(***************************************************************************)
(* utils.check_troughs                                                     *)
(***************************************************************************)
\* the trough of the pair (peaks[f], peaks[f+1]); ok is FALSE when dp.min()
\* raises on an empty slice.
TroughOfPair(data, peaks, troughs, f) ==
    LET lo == Idx(peaks, f)
        hi == Idx(peaks, f + 1)
    IN  With(SelectSeq(troughs, LAMBDA t : t > lo /\ t < hi), LAMBDA curr :
        With(Slice(data, lo, hi), LAMBDA dp :
            IF curr = << >>
            THEN IF dp = << >> THEN [ok |-> FALSE, v |-> 0]
                 ELSE [ok |-> TRUE, v |-> lo + ArgMin(dp)]
            ELSE [ok |-> TRUE, v |-> curr[1]]))

\* no exception
NoErr == "none"

\* check_troughs(data, peaks, troughs): np.zeros(peaks.size - 1) raises on
\* an empty peaks array, dp.min() on an empty slice.
CheckTroughs(data, peaks, troughs) ==
    With([k \in 1..(Len(peaks) - 1) |->
             TroughOfPair(data, peaks, troughs, k - 1)], LAMBDA per :
        IF Len(peaks) = 0
        THEN [ok |-> FALSE, v |-> << >>,
              err |-> "ValueError: negative dimensions are not allowed"]
        ELSE IF \E k \in 1..Len(per) : ~per[k].ok
        THEN [ok |-> FALSE, v |-> << >>,
              err |-> "ValueError: zero-size array to reduction operation"]
        ELSE [ok |-> TRUE, v |-> [k \in 1..Len(per) |-> per[k].v],
              err |-> NoErr])

\* the call check_troughs(data, data.peaks) of peakfind_physio and add_peaks:
\* check_troughs has three required parameters, so the call raises before
\* the body runs, whatever data and peaks are, with MissingTroughs.
MissingTroughs ==
    "TypeError: check_troughs() missing 1 required positional argument: 'troughs'"

CheckTroughsNoTroughs(data, peaks) ==
    [ok |-> FALSE, v |-> << >>, err |-> MissingTroughs]

(***************************************************************************)
(* scipy.signal.find_peaks and np.percentile, as peakfind_physio uses them *)
(***************************************************************************)
\* np.percentile(a, q) with linear interpolation, times 100: the virtual
\* index is q * (n - 1) / 100.
Percentile100(a, q) ==
    With(Sorted(a), LAMBDA s :
        LET n  == Len(s)
            lo == (q * (n - 1)) \div 100
            g  == (q * (n - 1)) % 100
        IN  IF g = 0 THEN 100 * Idx(s, lo)
            ELSE 100 * Idx(s, lo) + g * (Idx(s, lo + 1) - Idx(s, lo)))

\* scipy's _local_maxima_1d: the midpoint of every plateau that is higher
\* than both its neighbours; the first and the last sample are never peaks.
LocalMaxima(x) ==
    LET n == Len(x)
        IsEdge(l, r) ==
            /\ l >= 1 /\ r <= n - 2 /\ l <= r
            /\ Idx(x, l - 1) < Idx(x, l)
            /\ Idx(x, r + 1) < Idx(x, l)
            /\ \A k \in l..r : Idx(x, k) = Idx(x, l)
    IN  SortedOfSet({(l + r) \div 2 : <<l, r>> \in
            {e \in (0..(n - 1)) \X (0..(n - 1)) : IsEdge(e[1], e[2])}})

\* scipy's _select_by_peak_distance: peaks are visited from the highest to
\* the lowest (argsort of the heights, from its end); a visited peak that is
\* still kept removes every other peak closer than `distance`.
RECURSIVE SelectByPeakDistance(_, _, _, _, _)
SelectByPeakDistance(peaks, order, i, keep, distance) ==
    IF i = 0 THEN keep
    ELSE LET j == order[i]
         IN  IF j \notin keep
             THEN SelectByPeakDistance(peaks, order, i - 1, keep, distance)
             ELSE SelectByPeakDistance(peaks, order, i - 1,
                      {k \in keep : k = j \/
                          (IF peaks[k] > peaks[j] THEN peaks[k] - peaks[j]
                           ELSE peaks[j] - peaks[k]) >= distance},
                      distance)

\* np.argsort of the peak heights (positions 1..n, ties in index order).
RECURSIVE ArgSortFrom(_, _)
ArgSortFrom(h, left) ==
    IF left = {} THEN << >>
    ELSE LET m == CHOOSE k \in left : \A l \in left :
                      h[k] < h[l] \/ (h[k] = h[l] /\ k <= l)
         IN  <<m>> \o ArgSortFrom(h, left \ {m})

\* find_peaks(x, distance=distance, height=h1000 / 1000): ok is FALSE when
\* scipy raises (distance < 1).
FindPeaks(x, distance, h1000) ==
    With(SelectSeq(LocalMaxima(x), LAMBDA p : 1000 * Idx(x, p) >= h1000),
         LAMBDA cand :
    With([k \in 1..Len(cand) |-> Idx(x, cand[k])], LAMBDA hs :
    With(ArgSortFrom(hs, 1..Len(cand)), LAMBDA order :
    With(SortedOfSet(SelectByPeakDistance(cand, order, Len(cand),
                                          1..Len(cand), distance)),
         LAMBDA ks :
        [ok      |-> distance >= 1,
         locs    |-> [k \in 1..Len(ks) |-> cand[ks[k]]],
         heights |-> [k \in 1..Len(ks) |-> hs[ks[k]]]]))))

(***************************************************************************)
(* utils.get_extrema                                                       *)
(***************************************************************************)
Sign(x) == IF x > 0 THEN 1 ELSE IF x < 0 THEN -1 ELSE 0

\* trend = np.sign(np.diff(data)) after the loop that gives every flat step
\* the direction of the step after it, from the last flat step to the first
Trend(data) ==
    LET m == Len(data) - 1
        res[i \in 1..m] ==
            With(Sign(data[i + 1] - data[i]), LAMBDA raw :
                IF raw # 0 THEN raw
                ELSE IF i = m THEN 1
                ELSE IF res[i + 1] >= 0 THEN 1 ELSE -1)
    IN  [i \in 1..m |-> res[i]]

\* the number of flat steps: np.argwhere(trend == 0).squeeze() is a 0-d
\* array when there is exactly one, and idx[i] raises IndexError on it
FlatSteps(data) ==
    Cardinality({i \in 1..(Len(data) - 1) : data[i + 1] = data[i]})

\* the ValueError get_extrema raises for a threshold outside [0, 1]
ThresholdError == "ValueError: Provided threshold is not in range [0, 1]."

\* get_extrema(data, peaks, thresh = tnum / 10): ok is FALSE when it raises
GetExtrema(data, peaks, tnum) ==
    IF tnum < 0 \/ tnum > 10
    THEN [ok |-> FALSE, v |-> << >>, err |-> ThresholdError]
    ELSE IF FlatSteps(data) = 1
    THEN [ok |-> FALSE, v |-> << >>,
          err |-> "IndexError: too many indices for array"]
    ELSE
    With(IF peaks
         THEN tnum * (Percentile100(data, 95) - Percentile100(data, 5))
         ELSE tnum * (Percentile100(data, 5) - Percentile100(data, 95)),
         LAMBDA uthresh :
    With(Trend(data), LAMBDA trend :
        [ok |-> TRUE,
         v  |-> SortedOfSet(
                  {j \in 1..(Len(trend) - 1) :
                      /\ trend[j + 1] - trend[j] = (IF peaks THEN -2 ELSE 2)
                      /\ IF peaks THEN 1000 * Idx(data, j) > uthresh
                         ELSE 1000 * Idx(data, j) < uthresh}),
         err |-> "none"]))

(***************************************************************************)
(* utils.min_peak_dist                                                     *)
(***************************************************************************)
\* the orders argsort may put the positions `remaining` of vals in, smallest
\* value first: equal values come in either order (the default sort kind is
\* not a stable one)
RECURSIVE ArgSorts(_, _)
ArgSorts(vals, remaining) ==
    IF remaining = {} THEN {<< >>}
    ELSE UNION {{<<i>> \o rest : rest \in ArgSorts(vals, remaining \ {i})} :
                i \in {j \in remaining :
                          \A k \in remaining : vals[j] <= vals[k]}}

\* idx[::-1]
Reversed(s) == [i \in 1..Len(s) |-> s[Len(s) + 1 - i]]

\* the orders idx can have after `idx = data[locs].argsort()` and, for
\* peaks, `idx = idx[::-1]`; positions count from 1
AmplitudeOrders(data, locs, peaks) ==
    {IF peaks THEN Reversed(o) ELSE o :
        o \in ArgSorts([k \in 1..Len(locs) |-> Idx(data, locs[k])],
                       1..Len(locs))}

\* the loop over the ordered candidates sl: a candidate not marked yet marks
\* every candidate within dist of it, and is unmarked itself.  del is the
\* set of marked positions (idelete).
RECURSIVE MarkClose(_, _, _, _)
MarkClose(sl, dist, i, del) ==
    IF i > Len(sl) THEN del
    ELSE IF i \in del THEN MarkClose(sl, dist, i + 1, del)
    ELSE MarkClose(sl, dist, i + 1,
             (del \cup {k \in 1..Len(sl) :
                          sl[k] >= sl[i] - dist /\ sl[k] <= sl[i] + dist})
                 \ {i})

\* `any(np.diff(sorted(locs)) <= dist)`
AnyWithin(locs, dist) ==
    \E k \in 1..(Len(locs) - 1) :
        Sorted(locs)[k + 1] - Sorted(locs)[k] <= dist

\* locs[~idelete]
RECURSIVE Unmarked(_, _)
Unmarked(sl, idelete) ==
    IF sl = << >> THEN << >>
    ELSE Unmarked(SubSeq(sl, 1, Len(sl) - 1), idelete) \o
         (IF Len(sl) \in idelete THEN << >> ELSE <<sl[Len(sl)]>>)

\* min_peak_dist(data, locs, peaks, dist), idx being the order argsort
\* gave: locs is returned as it came when no two candidates are within
\* dist of each other
MinPeakDist(data, locs, idx, dist) ==
    IF ~AnyWithin(locs, dist)
    THEN locs
    ELSE With([k \in 1..Len(locs) |-> locs[idx[k]]], LAMBDA sl :
         With(MarkClose(sl, dist, 1, {}), LAMBDA idelete :
            Sorted(Unmarked(sl, idelete))))

(***************************************************************************)
(* operations.py                                                           *)
(***************************************************************************)
\* The outcome of a call f(data, ...): err names the exception it raised
\* (NoErr when it returned) and ok tells whether it returned; out is the
\* object `data` is bound to inside f when f ends (the returned record when
\* ok); arg is the caller's object after the call; same tells whether out
\* and arg are one object.
Finish(r, cp, err, local) ==
    [ok   |-> err = NoErr,
     err  |-> err,
     out  |-> local,
     arg  |-> IF cp.fresh THEN r ELSE local,
     same |-> ~cp.fresh]

\* utils.make_operation: run the function, then append (name, arguments) to
\* the history of the record it returned.
MakeOperation(name, args, outcome) ==
    With(outcome, LAMBDA res :
        IF ~res.ok THEN res
        ELSE [res EXCEPT
                !.out.history = Append(@, Entry(name, args)),
                !.arg.history =
                    IF res.same THEN Append(@, Entry(name, args)) ELSE @])

DistNone == -1

\* the distance of the second find_peaks call when fewer than two peaks came
\* out of the first: np.diff(locs).mean() is NaN and scipy converts it to an
\* integer, which C leaves undefined.
NanDistances == {0, DataLen + 1}

\* the second find_peaks call of peakfind_physio, on the locations and the
\* heights f1 of the first
SecondPass(data, f1, nanDist) ==
    LET n1 == Len(f1.locs)
    IN  IF n1 >= 2
        THEN FindPeaks(data, (f1.locs[n1] - f1.locs[1]) \div (2 * (n1 - 1)),
                       10 * Percentile100(f1.heights, 1))
        ELSE [FindPeaks(data, nanDist, 10 * Percentile100(f1.heights, 1))
                EXCEPT !.ok = TRUE]

\* the first find_peaks call of peakfind_physio: distance fs // 4 unless
\* dist is given, height thresh times the 5-95 percentile spread
FirstPass(data, fs, tnum, dist) ==
    FindPeaks(data,
              IF dist = DistNone THEN fs \div 4 ELSE dist,
              (Percentile100(data, 95) - Percentile100(data, 5)) * tnum)

\* peakfind_physio(data, thresh=tnum / 10, dist=dist): the last statement
\* calls check_troughs with two arguments, so every call that gets there
\* raises.
PeakfindBody(r, tnum, dist, nanDist) ==
    With(CheckPhysio(r, dist = DistNone, TRUE), LAMBDA cp :
    With(cp.rec, LAMBDA d0 :
    With(FirstPass(d0.data, d0.fs, tnum, dist), LAMBDA f1 :
        IF ~cp.ok THEN Finish(r, cp, cp.err, r)
        ELSE IF ~f1.ok
        THEN Finish(r, cp, "ValueError: distance must be greater or equal to 1", d0)
        ELSE IF Len(f1.locs) = 0
        THEN Finish(r, cp, "IndexError: percentile of an empty array", d0)
        ELSE
    With(SecondPass(d0.data, f1, nanDist), LAMBDA f2 :
    With([d0 EXCEPT !.peaks = f2.locs], LAMBDA d1 :
    With(CheckTroughsNoTroughs(d1.data, PeaksOf(d1)), LAMBDA ct :
        IF ~f2.ok
        THEN Finish(r, cp, "ValueError: distance must be greater or equal to 1", d0)
        ELSE IF ~ct.ok THEN Finish(r, cp, ct.err, d1)
        ELSE Finish(r, cp, NoErr, [d1 EXCEPT !.troughs = ct.v])))))))

PeakfindPhysio(r, tnum, dist, nanDist) ==
    MakeOperation("peakfind_physio", <<tnum, dist>>,
                  PeakfindBody(r, tnum, dist, nanDist))

\* delete_peaks(data, remove): the copy check_physio makes holds no peaks
DeletePeaksBody(r, remove) ==
    With(CheckPhysio(r, FALSE, TRUE), LAMBDA cp :
    With(cp.rec, LAMBDA d0 :
    With([d0 EXCEPT !.peaks = SetDiff1d(d0.peaks, remove)], LAMBDA d1 :
    With(CheckTroughs(d1.data, PeaksOf(d1), d1.troughs), LAMBDA ct :
        IF ~ct.ok THEN Finish(r, cp, ct.err, d1)
        ELSE Finish(r, cp, NoErr, [d1 EXCEPT !.troughs = ct.v])))))

DeletePeaks(r, remove) ==
    MakeOperation("delete_peaks", remove, DeletePeaksBody(r, remove))

\* reject_peaks(data, remove)
RejectPeaksBody(r, remove) ==
    With(CheckPhysio(r, FALSE, TRUE), LAMBDA cp :
    With(cp.rec, LAMBDA d0 :
    With([d0 EXCEPT !.reject = d0.reject \o remove], LAMBDA d1 :
    With(CheckTroughs(d1.data, PeaksOf(d1), d1.troughs), LAMBDA ct :
        IF ~ct.ok THEN Finish(r, cp, ct.err, d1)
        ELSE Finish(r, cp, NoErr, [d1 EXCEPT !.troughs = ct.v])))))

RejectPeaks(r, remove) ==
    MakeOperation("reject_peaks", remove, RejectPeaksBody(r, remove))

\* add_peaks(data, add); a scalar `add` is the one-element sequence.  The
\* last statement calls check_troughs with two arguments.
AddPeaksBody(r, add) ==
    With(CheckPhysio(r, FALSE, TRUE), LAMBDA cp :
    With(cp.rec, LAMBDA d0 :
    With([d0 EXCEPT !.peaks =
             NpInsert(d0.peaks, SearchSortedAll(d0.peaks, add), add)],
         LAMBDA d1 :
    With(CheckTroughsNoTroughs(d1.data, PeaksOf(d1)), LAMBDA ct :
        IF ~ct.ok THEN Finish(r, cp, ct.err, d1)
        ELSE Finish(r, cp, NoErr, [d1 EXCEPT !.troughs = ct.v])))))

AddPeaks(r, add) ==
    MakeOperation("add_peaks", add, AddPeaksBody(r, add))

\* _valid_methods of filter_physio
ValidMethods == {"lowpass", "highpass", "bandpass", "bandstop"}

BandMethods == {"bandpass", "bandstop"}

\* a method name as the number that stands for it in a history entry of the
\* model; a name that is no valid method is the last of them
MethodNames == <<"lowpass", "highpass", "bandpass", "bandstop", "notch">>

MethodCode(m) == CHOOSE c \in 1..Len(MethodNames) : MethodNames[c] = m

MethodOfCode(c) == MethodNames[c]

\* the default order of the Butterworth filter
Order == 3

\* signal.filtfilt pads with 3 * max(len(a), len(b)) samples and raises
\* unless the input is longer than that; signal.butter returns order + 1
\* coefficients for a low- or highpass filter, 2 * order + 1 for a band
PadLen(method, order) ==
    3 * (IF method \in BandMethods THEN 2 * order + 1 ELSE order + 1)

\* samples the model does not compute
Unknown == "?"

IsZero(x) == \A k \in 1..Len(x) : x[k] = 0

\* signal.filtfilt(b, a, x): the filter is linear, so a signal of zeros
\* comes out as zeros; it keeps the length.  The samples of every other
\* output depend on the coefficients and are left Unknown.
Filtfilt(x) == IF IsZero(x) THEN x ELSE [k \in 1..Len(x) |-> Unknown]

\* the tests filter_physio makes before it filters, in the order of the
\* code; cutoffs is the sequence np.array(cutoffs) holds, in Hz
FilterError(r, cutoffs, method, order, butterCheck) ==
    IF r.fs = NaN
    THEN "ValueError: Provided data does not have valid sampling rate."
    ELSE IF method \notin ValidMethods
    THEN "ValueError: Provided method is not permitted"
    ELSE IF method \notin BandMethods /\ Len(cutoffs) # 1
    THEN "ValueError: Cutoffs must be length 1"
    ELSE IF method \in BandMethods /\ Len(cutoffs) # 2
    THEN "ValueError: Cutoffs must be length 2"
    ELSE IF \E k \in 1..Len(cutoffs) : 2 * cutoffs[k] > r.fs
    THEN "ValueError: Provided cutoffs are outside of the Nyquist frequency"
    ELSE IF butterCheck /\
            \E k \in 1..Len(cutoffs) : cutoffs[k] <= 0 \/ 2 * cutoffs[k] = r.fs
    THEN "ValueError: Digital filter critical frequencies must be 0 < Wn < 1"
    ELSE IF butterCheck /\ Len(cutoffs) = 2 /\ cutoffs[1] >= cutoffs[2]
    THEN "ValueError: Wn[0] must be less than Wn[1]"
    ELSE IF Len(r.data) <= PadLen(method, order)
    THEN "ValueError: The length of the input vector x must be greater than padlen"
    ELSE NoErr

\* filter_physio without the range check of signal.butter: only the code's
\* own test, cutoff / (fs / 2) > 1, raises.
FilterPhysioBodyNoButterCheck(r, cutoffs, method, order) ==
    With(FilterError(r, cutoffs, method, order, FALSE), LAMBDA err :
        [ok   |-> err = NoErr,
         err  |-> err,
         out  |-> IF err = NoErr
                  THEN NewPhysioLike(r, Filtfilt(r.data), NaN, TRUE) ELSE r,
         arg  |-> r,
         same |-> FALSE])

\* filter_physio(data, cutoffs, method, order).  The code raises when a
\* cutoff / (fs / 2) > 1; signal.butter raises unless 0 < Wn < 1;
\* signal.filtfilt raises unless the input is longer than its padding.
FilterPhysioBody(r, cutoffs, method, order) ==
    With(FilterError(r, cutoffs, method, order, TRUE), LAMBDA err :
        [ok   |-> err = NoErr,
         err  |-> err,
         out  |-> IF err = NoErr
                  THEN NewPhysioLike(r, Filtfilt(r.data), NaN, TRUE) ELSE r,
         arg  |-> r,
         same |-> FALSE])

\* the arguments make_operation records: method, order and the cutoffs
FilterPhysio(r, cutoffs, method, order) ==
    MakeOperation("filter_physio", <<MethodCode(method), order>> \o cutoffs,
                  FilterPhysioBody(r, cutoffs, method, order))

\* interpolate_physio(data, target_fs): a cubic interp1d raises on fewer
\* than four samples; the supplementary data are interpolated when there
\* are any; the last statement hands new_physio_like a suppdata argument it
\* does not take, so every call that gets there raises.
InterpolatePhysioBody(r, target) ==
    With(CheckPhysio(r, TRUE, FALSE), LAMBDA cp :
        [ok   |-> FALSE,
         err  |-> IF ~cp.ok THEN cp.err
                  ELSE IF Len(r.data) < 4
                  THEN "ValueError: cubic interpolation needs at least 4 points"
                  ELSE IF r.suppdata # None /\ Len(r.suppdata) # Len(r.data)
                  THEN "ValueError: x and y arrays must be equal in length"
                  ELSE "TypeError: new_physio_like() got an unexpected keyword argument 'suppdata'",
         out  |-> r,
         arg  |-> r,
         same |-> TRUE])

InterpolatePhysio(r, target) ==
    MakeOperation("interpolate_physio", <<target>>,
                  InterpolatePhysioBody(r, target))

\* the number of turns of the inner loop of _comb_band_stop for one notch
\* frequency: np.arange(1, int(nyquist / notch))
Harmonics(fs, notch) == Max2((fs \div (2 * notch)) - 1, 0)

\* _comb_band_stop(notches, nyquist, data, Q): every turn filters `data`
\* with a notch filter of three coefficients; `filtered` is unbound when no
\* turn is made.
CombBandStop(r, notches) ==
    With(IF \A k \in 1..Len(notches) : Harmonics(r.fs, notches[k]) = 0
         THEN "UnboundLocalError: local variable 'filtered' referenced before assignment"
         ELSE IF Len(r.data) <= 9
         THEN "ValueError: The length of the input vector x must be greater than padlen"
         ELSE NoErr, LAMBDA err :
        MakeOperation("_comb_band_stop", << >>,
            [ok   |-> err = NoErr,
             err  |-> err,
             out  |-> IF err = NoErr
                      THEN NewPhysioLike(r, Filtfilt(r.data), NaN, TRUE)
                      ELSE r,
             arg  |-> r,
             same |-> FALSE]))

\* the order of the bandpass filter of the two ECG pipelines
BandOrder == 5

\* _ecg_clean_bottenhorn(data, tr, mb, slices): the highpass and the comb
\* results are dropped, the lowpass and the bandpass filter `data` itself.
EcgCleanBottenhorn(r, p) ==
    With(FilterPhysio(r, <<2>>, "highpass", Order), LAMBDA hp :
        IF ~hp.ok THEN hp
        ELSE
    With(CombBandStop(hp.out, <<p.slices \div (p.mb * p.tr), 1 \div p.tr>>),
         LAMBDA cb :
        IF ~cb.ok THEN [cb EXCEPT !.out = r, !.arg = r]
        ELSE
    With(FilterPhysio(r, <<40>>, "lowpass", Order), LAMBDA lp :
        IF ~lp.ok THEN lp
        ELSE FilterPhysio(r, <<2, 20>>, "bandpass", BandOrder))))

\* _ecg_clean_biopac(data, tr, slices): highpass, comb, bandpass in a row
EcgCleanBiopac(r, p) ==
    With(FilterPhysio(r, <<2>>, "highpass", Order), LAMBDA hp :
        IF ~hp.ok THEN hp
        ELSE
    With(CombBandStop(hp.out, <<p.slices \div p.tr, 1 \div p.tr>>),
         LAMBDA cb :
        IF ~cb.ok THEN [cb EXCEPT !.out = r, !.arg = r]
        ELSE
    With(FilterPhysio(cb.out, <<2, 20>>, "bandpass", BandOrder), LAMBDA bp :
        [bp EXCEPT !.arg = r])))

\* the body of fmri_ecg_clean(data, method, **kwargs); given is the set of
\* keyword names passed, p their values.  'biopac' binds `data` and then
\* returns the unbound `ecg_clean`.
FmriEcgCleanBody(r, method, given, p) ==
    LET raise(err) ==
            [ok |-> FALSE, err |-> err, out |-> r, arg |-> r, same |-> FALSE]
    IN  IF "tr" \notin given
        THEN raise("ValueError: The TR must be specified")
        ELSE IF "mb" \notin given
        THEN raise("ValueError: The multiband factor must be specified")
        ELSE IF "slices" \notin given
        THEN raise("ValueError: The number of slices must be specified")
        ELSE IF method = "biopac"
        THEN With(EcgCleanBiopac(r, p), LAMBDA bio :
                IF ~bio.ok THEN raise(bio.err)
                ELSE raise("UnboundLocalError: local variable 'ecg_clean' referenced before assignment"))
        ELSE IF method \in {"bottenhorn", "bottenhorn2022"}
        THEN EcgCleanBottenhorn(r, p)
        ELSE raise("ValueError: The specified method is not supported.")

EcgMethods == <<"biopac", "bottenhorn", "neurokit">>

EcgMethodCode(m) == CHOOSE c \in 1..Len(EcgMethods) : EcgMethods[c] = m

FmriEcgClean(r, method, given, p) ==
    MakeOperation("fmri_ecg_clean",
                  <<EcgMethodCode(method), p.tr, p.mb, p.slices>>,
                  FmriEcgCleanBody(r, method, given, p))

\* the modalities neurokit_processing accepts, after modality.upper()
Modalities == <<"ECG", "PPG", "RSP", "EDA">>

\* neurokit_processing(data, modality, method, **kwargs).  nk is what the
\* neurokit2 package does, which is not part of the repository: whether it
\* can be imported, whether its processing call raises, the peaks and the
\* clean samples it returns and the troughs (hasTroughs is FALSE when the
\* info holds no <modality>_Troughs).  check_physio takes no copy, so
\* outside ECG the peaks, the troughs and the features are written into the
\* caller's object.
NeurokitBody(r, modality, method, given, p, nk) ==
    LET raise(err, arg) ==
            [ok |-> FALSE, err |-> err, out |-> arg, arg |-> arg,
             same |-> TRUE]
    IN  IF ~nk.installed
        THEN raise("ImportError: neurokit2 is required to use this function", r)
        ELSE IF modality \notin SeqSet(Modalities)
        THEN raise("ValueError: Provided modality is not permitted", r)
        ELSE IF r.fs = NaN
        THEN raise("ValueError: Provided data does not have valid sampling rate.", r)
        ELSE
    With(IF modality = "ECG" THEN FmriEcgClean(r, method, given, p)
         ELSE [ok |-> TRUE, err |-> NoErr, out |-> r, arg |-> r,
               same |-> TRUE], LAMBDA cl :
        IF ~cl.ok THEN raise(cl.err, r)
        ELSE IF nk.raises THEN raise("neurokit2 raised", r)
        ELSE
    With([cl.out EXCEPT !.peaks = nk.peaks], LAMBDA d1 :
    With(IF ~nk.hasTroughs THEN d1 ELSE [d1 EXCEPT !.troughs = nk.troughs],
         LAMBDA d2 :
    With(CheckTroughs(d2.data, PeaksOf(d2), d2.troughs), LAMBDA ct :
        IF nk.hasTroughs /\ ~ct.ok
        THEN [ok |-> FALSE, err |-> ct.err, out |-> d2,
              arg |-> IF cl.same THEN d2 ELSE r, same |-> cl.same]
        ELSE
    With([d2 EXCEPT !.troughs = IF ~nk.hasTroughs THEN @ ELSE ct.v,
                    !.features = {"info", "signal"}], LAMBDA d3 :
        IF ~nk.hasClean
        THEN [ok |-> FALSE, err |-> "KeyError: '<modality>_Clean'",
              out |-> d3, arg |-> IF cl.same THEN d3 ELSE r,
              same |-> cl.same]
        ELSE [ok   |-> TRUE,
              err  |-> NoErr,
              out  |-> NewPhysioLike(d3, nk.clean, NaN, TRUE),
              arg  |-> IF cl.same THEN d3 ELSE r,
              same |-> FALSE])))))

ModalityCode(m) ==
    IF m \in SeqSet(Modalities)
    THEN CHOOSE c \in 1..Len(Modalities) : Modalities[c] = m
    ELSE 0

NeurokitProcessing(r, modality, method, given, p, nk) ==
    MakeOperation("neurokit_processing",
                  <<ModalityCode(modality), EcgMethodCode(method)>>,
                  NeurokitBody(r, modality, method, given, p, nk))

(***************************************************************************)
(* io.py: loading and the replay of a saved history                        *)
(***************************************************************************)
\* utils._get_call inside load_physio: the name of the calling function and
\* frame.f_locals[k] for k in getfullargspec(f_globals[name]).args.  The
\* module-level load_physio is the function logger.catch returned, a
\* wrapper taking (*args, **kwargs); getfullargspec does not look through
\* wrappers, so .args is empty and no argument is recorded.
GetCallLoadPhysio == Entry("load_physio", << >>)

\* a load_physio entry that holds its arguments, data=<the path> and fs=fs,
\* as a caller can hand it to load_physio(array, history=[...])
LoadEntry(fs) == Entry("load_physio", <<fs>>)

\* load_physio(path, fs=fs) of a text file
LoadPhysioPath(samples, fs) == Physio(samples, fs, <<GetCallLoadPhysio>>)

\* load_physio(array, fs=fs, history=history); history=None becomes an
\* empty history
LoadPhysioArray(samples, fs, history) == Physio(samples, fs, history)

\* load_physio(record): a new record like it, with one more entry
LoadPhysioRecord(r) ==
    [NewPhysioLike(r, r.data, NaN, TRUE) EXCEPT
        !.history = Append(@, GetCallLoadPhysio)]

\* physio.Physio(data, fs=fs, history=history, metadata=dict(peaks=peaks,
\* reject=reject, troughs=troughs)), the record load_physio builds from a
\* file save_physio wrote
PhysioWith(data, fs, history, peaks, reject, troughs) ==
    [Physio(data, fs, history) EXCEPT
        !.peaks = peaks, !.reject = reject, !.troughs = troughs]

\* the names `import peakdet` binds (peakdet/__init__.py)
Exported ==
    {"delete_peaks", "edit_physio", "filter_physio", "interpolate_physio",
     "peakfind_physio", "plot_physio", "reject_peaks", "load_physio",
     "save_physio", "load_history", "save_history", "load_rtpeaks"}

\* getattr(peakdet, func)(data, **kwargs) for one history entry
ReplayEntry(r, e, nanDist) ==
    IF e.name \notin Exported
    THEN [ok |-> FALSE, out |-> r,
          err |-> "AttributeError: module 'peakdet' has no attribute"]
    ELSE IF e.name = "load_physio"
         THEN [ok |-> TRUE, out |-> LoadPhysioRecord(r), err |-> NoErr]
    ELSE IF e.name = "filter_physio"
         THEN FilterPhysio(r, SubSeq(e.args, 3, Len(e.args)),
                           MethodOfCode(e.args[1]), e.args[2])
    ELSE IF e.name = "peakfind_physio"
         THEN PeakfindPhysio(r, e.args[1], e.args[2], nanDist)
    ELSE IF e.name = "interpolate_physio"
         THEN InterpolatePhysio(r, e.args[1])
    ELSE IF e.name = "delete_peaks" THEN DeletePeaks(r, e.args)
    ELSE IF e.name = "reject_peaks" THEN RejectPeaks(r, e.args)
    ELSE [ok |-> FALSE, out |-> r,
          err |-> "TypeError: unexpected keyword argument"]

\* one turn of load_history's loop: st.have tells whether `data` is a record
\* yet (it starts as None), st.err which exception has been raised.  A
\* loading entry is replayed from kwargs['data'], a KeyError when the entry
\* holds no arguments and a FileNotFoundError when the file is gone.  A
\* loading entry with arguments met when `data` is a record calls
\* load_physio(data, data=...): the TypeError is caught by load_physio's
\* @logger.catch and `data` becomes None.  Any other entry met while `data`
\* is None has check_physio read None.fs.
ReplayStep(st, e, samples, exists, nanDist) ==
    IF st.err # NoErr THEN st
    ELSE IF e.name = "load_physio" /\ ~st.have
         THEN IF e.args = << >> THEN [st EXCEPT !.err = "KeyError: 'data'"]
              ELSE IF ~exists
              THEN [st EXCEPT !.err = "FileNotFoundError"]
              ELSE [err |-> NoErr, have |-> TRUE,
                    rec |-> LoadPhysioPath(samples, e.args[1])]
    ELSE IF e.name = "load_physio" /\ e.args # << >>
         THEN [st EXCEPT !.have = FALSE]
    ELSE IF ~st.have
         THEN [st EXCEPT !.err =
                  IF e.name \in Exported
                  THEN "AttributeError: 'NoneType' object has no attribute 'fs'"
                  ELSE "AttributeError: module 'peakdet' has no attribute"]
    ELSE Only({IF res.ok THEN [st EXCEPT !.rec = res.out]
               ELSE [st EXCEPT !.err = res.err] :
               res \in {ReplayEntry(st.rec, e, nanDist)}})

\* the body of load_history: the entries are replayed in order.  err names
\* the exception a call of the loop raised; an empty history leaves `data`
\* None.
LoadHistoryBody(hist, samples, exists, nanDist) ==
    LET run[i \in 0..Len(hist)] ==
            IF i = 0
            THEN [err |-> NoErr, have |-> FALSE,
                  rec |-> Physio(<< >>, NaN, << >>)]
            ELSE Only({ReplayStep(st, hist[i], samples, exists, nanDist) :
                       st \in {run[i - 1]}})
    IN  Only({[ok |-> end.err = NoErr /\ end.have, rec |-> end.rec,
               err |-> end.err, raised |-> end.err # NoErr] :
              end \in {run[Len(hist)]}})

\* @logger.catch: an exception of the decorated function is logged and the
\* default, None, is returned to the caller.
LoggerCatch(res) == [res EXCEPT !.raised = FALSE]

\* load_history as the package exposes it
LoadHistory(hist, samples, exists, nanDist) ==
    LoggerCatch(LoadHistoryBody(hist, samples, exists, nanDist))

(***************************************************************************)
(* editor.py: _PhysioEditor, and edit_physio of operations.py              *)
(***************************************************************************)
Relevant == {"reject_peaks", "delete_peaks", "add_peaks"}

\* _PhysioEditor.__init__(data): the working record is a copy
EditorInit(r) ==
    [open     |-> TRUE,
     events   |-> 0,
     data     |-> CheckPhysio(r, TRUE, TRUE).rec,
     rejected |-> {}, deleted |-> {}, included |-> {},
     orig     |-> r,
     trail    |-> << >>]

\* on_edit(xmin, xmax, method='reject' / 'delete'); tmin and tmax are the
\* sample indices of the span.  The indices are noted before the operation
\* is called; raised tells whether the callback raised.
OnEditRemove(e, tmin, tmax, method) ==
    With(PeaksOf(e.data), LAMBDA pk :
    With(Slice(pk, SearchSorted(pk, tmin), SearchSorted(pk, tmax)),
         LAMBDA vals :
    With(IF method = "reject"
         THEN [e EXCEPT !.rejected = @ \cup SeqSet(vals)]
         ELSE [e EXCEPT !.deleted = @ \cup SeqSet(vals)], LAMBDA e1 :
        IF vals = << >> THEN [ed |-> e, raised |-> FALSE, applied |-> FALSE]
        ELSE
    With(IF method = "reject" THEN RejectPeaks(e.data, vals)
         ELSE DeletePeaks(e.data, vals), LAMBDA res :
        IF ~res.ok THEN [ed |-> e1, raised |-> TRUE, applied |-> FALSE]
        ELSE [ed |-> [e1 EXCEPT !.data = res.out],
              raised |-> FALSE, applied |-> TRUE]))))

\* on_edit(xmin, xmax, method='insert'): the new peak is noted in included
\* before add_peaks is called
OnEditInsert(e, tmin, tmax) ==
    With(tmin + (IF tmin # tmax
                 THEN ArgMax(Slice(e.data.data, tmin, tmax)) ELSE 0),
         LAMBDA newpeak :
        IF newpeak = tmin THEN [ed |-> e, raised |-> FALSE, applied |-> FALSE]
        ELSE
    With(AddPeaks(e.data, <<newpeak>>), LAMBDA res :
    With([e EXCEPT !.included = @ \cup {newpeak}], LAMBDA e1 :
        IF ~res.ok THEN [ed |-> e1, raised |-> TRUE, applied |-> FALSE]
        ELSE [ed |-> [e1 EXCEPT !.data = res.out],
              raised |-> FALSE, applied |-> TRUE])))

OnEdit(e, tmin, tmax, method) ==
    IF method = "insert" THEN OnEditInsert(e, tmin, tmax)
    ELSE OnEditRemove(e, tmin, tmax, method)

\* the last statement of undo: troughs recomputed with check_troughs(data,
\* data.peaks, data.troughs); the record keeps its troughs when that raises.
UndoTroughs(editor) ==
    With(editor, LAMBDA e :
    With(CheckTroughs(e.data.data, PeaksOf(e.data), e.data.troughs),
         LAMBDA ct :
        IF ~ct.ok THEN [ed |-> e, raised |-> TRUE, popped |-> TRUE]
        ELSE [ed |-> [e EXCEPT !.data.troughs = ct.v],
              raised |-> FALSE, popped |-> TRUE]))

\* _PhysioEditor.undo(), statement by statement: every assignment made
\* before an exception stays.
Undo(e) ==
    LET h    == e.data.history
        top  == h[Len(h)]
        e0   == [e EXCEPT !.data.history = SubSeq(h, 1, Len(h) - 1)]
        pk   == e0.data.peaks
    IN  IF h = << >> THEN [ed |-> e, raised |-> TRUE, popped |-> FALSE]
        ELSE IF top.name \notin Relevant
             THEN [ed |-> e, raised |-> FALSE, popped |-> FALSE]
        ELSE IF top.name = "reject_peaks"
             THEN UndoTroughs([e0 EXCEPT
                      !.data.reject = SetDiff1d(@, top.args),
                      !.rejected = @ \ SeqSet(top.args)])
        ELSE IF top.name = "delete_peaks"
             THEN UndoTroughs([e0 EXCEPT
                      !.data.peaks =
                          NpInsert(pk, SearchSortedAll(pk, top.args), top.args),
                      !.deleted = @ \ SeqSet(top.args)])
        ELSE IF ~NpDeleteOk(pk, SearchSortedAll(pk, top.args))
             THEN [ed |-> e0, raised |-> TRUE, popped |-> TRUE]
        ELSE LET e1 == [e0 EXCEPT !.data.peaks =
                           NpDelete(pk, SearchSortedAll(pk, top.args))]
             IN  IF Len(top.args) # 1 \/ top.args[1] \notin e1.included
                 THEN [ed |-> e1, raised |-> TRUE, popped |-> TRUE]
                 ELSE UndoTroughs([e1 EXCEPT !.included = @ \ {top.args[1]}])

\* edit_physio after the editor window is closed: the rejected, the deleted
\* and the included indices are applied, in that order, to the record
\* edit_physio was given.  A call that raises ends edit_physio.
ApplyRejected(r, e) ==
    IF e.rejected = {} THEN [ok |-> TRUE, out |-> r, err |-> NoErr]
    ELSE RejectPeaks(r, SortedOfSet(e.rejected))

ApplyDeleted(r, e) ==
    IF e.deleted = {} THEN [ok |-> TRUE, out |-> r, err |-> NoErr]
    ELSE DeletePeaks(r, SortedOfSet(e.deleted))

ApplyIncluded(r, e) ==
    IF e.included = {} THEN [ok |-> TRUE, out |-> r, err |-> NoErr]
    ELSE AddPeaks(r, SortedOfSet(e.included))

ApplyEdits(r, e) ==
    With(ApplyRejected(r, e), LAMBDA a :
        IF ~a.ok THEN [ok |-> FALSE, out |-> r, err |-> a.err]
        ELSE
    With(ApplyDeleted(a.out, e), LAMBDA b :
        IF ~b.ok THEN [ok |-> FALSE, out |-> r, err |-> b.err]
        ELSE
    With(ApplyIncluded(b.out, e), LAMBDA c :
        IF ~c.ok THEN [ok |-> FALSE, out |-> r, err |-> c.err]
        ELSE [ok |-> TRUE, out |-> c.out, err |-> NoErr])))

(***************************************************************************)
(* The state machine: a session that loads one record, applies logged      *)
(* operations to it, edits it interactively and replays its history.       *)
(***************************************************************************)
VARIABLES
    file,       \* the samples of the data file on disk
    rec,        \* the record the caller holds
    intact,     \* whether the last call left the object it was given as it was
    last,       \* the last call: its name, whether it returned, its exception
    ed,         \* the editor: working record and the three edit sets
    ev,         \* the last editor event, and the working record before it
    call,       \* the helper function called last, with its arguments
    result,     \* what that call returned
    pf,         \* a PeakFinder object of physio.py
    gui,        \* the PeakDetector window of gui.py
    saved       \* the history file save_history wrote

vars == <<file, rec, intact, last, ed, ev, call, result, pf, gui, saved>>

\* no helper function has been called
NoCall == [fn |-> "none"]

\* no PeakFinder has been constructed, no file loaded in the PeakDetector
NoFinder == [built |-> FALSE]

NoGui == [open |-> FALSE]

NoResult == [ok |-> FALSE]

Zeros(n) == [k \in 1..n |-> 0]

\* a record long enough for the default filters, and one long enough for
\* the bandpass filter of the ECG pipelines
LongData ==
    {Zeros(PadLen("lowpass", Order) + 1),
     Zeros(PadLen("bandpass", BandOrder) + 1)}

DataSet == [1..DataLen -> 0..MaxVal]

\* the sample arrays of a session: a ramp of every step and offset, wrapped
\* at MaxVal
Waves ==
    {[i \in 1..DataLen |-> (i * k + c) % (MaxVal + 1)] :
        k \in 0..MaxVal, c \in 0..MaxVal}

FsSet == {NaN, 4, 100}

TargetFs == {8}

CutoffSet == {<<1>>, <<50>>, <<1, 2>>}

Threshs == {2, 8}

Dists == {DistNone}

\* the scanner parameters handed to fmri_ecg_clean
ScanParams == [tr |-> 1, mb |-> 4, slices |-> 8]

\* None, where a record is expected
NoRec == Physio(<< >>, NaN, << >>)

\* no history file has been written yet; `of` is the record whose history
\* the file holds
NoSaved == [exists |-> FALSE, history |-> << >>, of |-> NoRec]

NoEditor ==
    [open |-> FALSE, events |-> 0, data |-> NoRec, rejected |-> {},
     deleted |-> {}, included |-> {}, orig |-> NoRec, trail |-> << >>]

NoEvent ==
    [kind |-> "none", method |-> "none", applied |-> FALSE, raised |-> FALSE,
     afterEdit |-> FALSE, pre |-> NoRec]

\* The histories and the metadata of the records a file of save_physio (or
\* a call of the Physio constructor) brings in: the peaks a detection
\* stored, the corrections logged after it and what they left.  A logged
\* correction holds its indices as the caller gave them, in any order, and
\* the same index may be logged by two corrections.
SavedShapes ==
    {[history |-> << >>, peaks |-> <<1, 3>>, reject |-> << >>],
     [history |-> <<GetCallLoadPhysio>>, peaks |-> <<1, 3>>, reject |-> << >>],
     [history |-> <<GetCallLoadPhysio>>, peaks |-> <<0, 2, 4>>,
      reject |-> << >>],
     [history |-> <<LoadEntry(4)>>, peaks |-> <<1, 3>>, reject |-> << >>],
     [history |-> <<LoadEntry(4), GetCallLoadPhysio>>, peaks |-> <<1, 3>>,
      reject |-> << >>],
     [history |-> <<LoadEntry(4), Entry("add_peaks", <<3>>)>>,
      peaks |-> <<1, 3>>, reject |-> << >>],
     [history |-> <<LoadEntry(4), Entry("delete_peaks", <<2>>)>>,
      peaks |-> <<1, 3>>, reject |-> << >>],
     [history |-> <<GetCallLoadPhysio, Entry("delete_peaks", <<1, 3>>)>>,
      peaks |-> <<0, 4>>, reject |-> << >>],
     [history |-> <<GetCallLoadPhysio, Entry("add_peaks", <<3>>),
                    Entry("delete_peaks", <<1, 3>>)>>,
      peaks |-> <<0, 4>>, reject |-> << >>],
     [history |-> <<GetCallLoadPhysio, Entry("delete_peaks", <<1>>),
                    Entry("delete_peaks", <<3>>)>>,
      peaks |-> <<0, 4>>, reject |-> << >>],
     [history |-> <<GetCallLoadPhysio, Entry("delete_peaks", <<3, 1>>)>>,
      peaks |-> <<0, 4>>, reject |-> << >>],
     [history |-> <<GetCallLoadPhysio, Entry("delete_peaks", <<3>>),
                    Entry("delete_peaks", <<3>>)>>,
      peaks |-> <<0, 4>>, reject |-> << >>],
     [history |-> <<Entry("reject_peaks", <<2>>)>>,
      peaks |-> <<0, 2, 4>>, reject |-> <<2>>]}

\* the troughs check_troughs computes for a record that has none yet
FreshTroughs(data, eff) ==
    With(CheckTroughs(data, eff, << >>), LAMBDA ct :
        IF ct.ok THEN ct.v ELSE << >>)

\* the record of one shape over the samples d
Saved(d, fs, s) ==
    PhysioWith(d, fs, s.history, s.peaks, s.reject,
               FreshTroughs(d, Masked(s.peaks, s.reject)))

SavedRecords(d) == {Saved(d, fs, s) : fs \in {NaN, 4}, s \in SavedShapes}

\* the call that built the record the session starts from
Loaded(op) == [op |-> op, args |-> << >>, ok |-> TRUE, err |-> NoErr]

Init ==
    /\ file \in Waves \cup LongData
    /\ \/ /\ \E fs \in FsSet :
                rec \in {LoadPhysioPath(file, fs),
                         LoadPhysioArray(file, fs, << >>)}
          /\ last = Loaded("load_physio")
       \/ /\ file \in Waves
          /\ rec \in SavedRecords(file)
          /\ last = Loaded("Physio")
    /\ intact = TRUE
    /\ ed = NoEditor
    /\ ev = NoEvent
    /\ call = NoCall
    /\ result = NoResult
    /\ pf = NoFinder
    /\ gui = NoGui
    /\ saved = NoSaved

\* the same peaks, reject, troughs and history (and samples, sampling rate,
\* features)
SameRecord(a, b) ==
    /\ a.peaks = b.peaks /\ a.reject = b.reject /\ a.troughs = b.troughs
    /\ a.history = b.history /\ a.data = b.data /\ a.fs = b.fs
    /\ a.features = b.features

\* rec = f(rec, ...): the caller holds the returned record; a call that
\* raises leaves the caller with the object it passed.
CallOf(name, args, outcomes) ==
    /\ ~ed.open
    /\ rec # NoRec
    /\ Len(rec.history) < MaxLog
    /\ \E res \in outcomes :
          /\ rec' = IF res.ok THEN res.out ELSE res.arg
          /\ intact' = SameRecord(res.arg, rec)
          /\ last' = [op |-> name, args |-> args, ok |-> res.ok,
                      err |-> res.err]
    /\ ev' = NoEvent
    /\ UNCHANGED <<file, ed, saved>>

Call(name, args, outcome) == CallOf(name, args, {outcome})

DoFilter ==
    CallOf("filter_physio", << >>,
           {FilterPhysio(rec, c, m, Order) :
               c \in CutoffSet, m \in ValidMethods \cup {"notch"}})

DoInterpolate ==
    CallOf("interpolate_physio", << >>,
           {InterpolatePhysio(rec, t) : t \in TargetFs})

DoPeakfind ==
    CallOf("peakfind_physio", << >>,
           {PeakfindPhysio(rec, t, d, nd) :
               t \in Threshs, d \in Dists, nd \in NanDistances})

Removals == {<<i>> : i \in 0..(DataLen - 2)} \cup {<<1, DataLen - 2>>}

DoDelete == \E x \in Removals : Call("delete_peaks", x, DeletePeaks(rec, x))

DoReject == \E x \in Removals : Call("reject_peaks", x, RejectPeaks(rec, x))

Additions ==
    {<<i>> : i \in {-1, DataLen} \cup 1..(DataLen - 2)} \cup
    {<<1, 2>>, <<1, DataLen - 2>>, <<2, 2>>, <<DataLen - 2, 1>>}

DoAdd == \E x \in Additions : Call("add_peaks", x, AddPeaks(rec, x))

DoFmriEcgClean ==
    CallOf("fmri_ecg_clean", << >>,
           {FmriEcgClean(rec, m, given, ScanParams) :
               m \in SeqSet(EcgMethods),
               given \in {{"tr", "mb", "slices"}, {"tr", "mb"}}})

\* what neurokit2 can hand back for a record of n samples
NkOutcomes(n) ==
    {[installed |-> i, raises |-> r, peaks |-> p, hasTroughs |-> ht,
      troughs |-> t, hasClean |-> hc, clean |-> IF hc THEN Zeros(n) ELSE << >>] :
        <<i, r, p, ht, t, hc>> \in
            {<<FALSE, FALSE, << >>, FALSE, << >>, FALSE>>,
             <<TRUE, TRUE, << >>, FALSE, << >>, FALSE>>,
             <<TRUE, FALSE, <<1, 3>>, FALSE, << >>, TRUE>>,
             <<TRUE, FALSE, <<1, 3>>, TRUE, <<2>>, TRUE>>,
             <<TRUE, FALSE, <<1, 3>>, FALSE, << >>, FALSE>>,
             <<TRUE, FALSE, << >>, TRUE, << >>, TRUE>>}}

\* out = neurokit_processing(rec, modality, method, tr=, mb=, slices=): the
\* caller goes on with the returned record or with the one it passed
DoNeurokit ==
    /\ ~ed.open
    /\ rec # NoRec
    /\ Len(rec.history) < MaxLog
    /\ \E res \in {NeurokitProcessing(rec, modality, "bottenhorn",
                         {"tr", "mb", "slices"}, ScanParams, nk) :
                         modality \in {"PPG", "ECG", "EEG"},
                         nk \in NkOutcomes(Len(rec.data))} :
          /\ rec' \in {res.arg} \cup (IF res.ok THEN {res.out} ELSE {})
          /\ intact' = SameRecord(res.arg, rec)
          /\ last' = [op |-> "neurokit_processing", args |-> << >>,
                      ok |-> res.ok, err |-> res.err]
    /\ ev' = NoEvent
    /\ UNCHANGED <<file, ed, saved>>

\* edit_physio(rec) up to plt.show(): it raises without a sampling rate and
\* returns None when the record has no peaks or no troughs; otherwise the
\* call has not returned yet and the editor is open.
DoEditOpen ==
    /\ ~ed.open
    /\ rec # NoRec
    /\ LET cp   == CheckPhysio(rec, TRUE, FALSE)
           none == PeaksOf(rec) = << >> \/ rec.troughs = << >>
       IN  /\ ed' = IF cp.ok /\ ~none THEN EditorInit(rec) ELSE ed
           /\ rec' = IF cp.ok /\ none THEN NoRec ELSE rec
           /\ last' = [op |-> "edit_physio", args |-> << >>, ok |-> FALSE,
                       err |-> cp.err]
    /\ intact' = TRUE
    /\ ev' = NoEvent
    /\ UNCHANGED <<file, saved>>

\* a span selection in the editor window, in a session of at most `limit`
\* events
OnEditEvent(limit) ==
    \E tmin \in 0..DataLen, tmax \in 0..DataLen,
       method \in {"reject", "delete", "insert"} :
        /\ ed.open
        /\ tmin < tmax
        /\ tmax <= Len(ed.data.data)
        /\ ed.events < limit
        /\ \E res \in {OnEdit(ed, tmin, tmax, method)} :
               IF ~res.applied /\ ~res.raised
               THEN UNCHANGED <<ed, ev>>
               ELSE /\ ed' = [res.ed EXCEPT
                               !.events = @ + 1,
                               !.trail = Append(@, IF res.applied THEN "edit"
                                                   ELSE "failed")]
                    /\ ev' = [kind |-> "edit", method |-> method,
                              applied |-> res.applied, raised |-> res.raised,
                              afterEdit |-> FALSE, pre |-> ed.data]
        /\ UNCHANGED <<file, rec, intact, last, saved>>

EdOnEdit == OnEditEvent(MaxEdits)

\* ctrl+z in the editor window
UndoEvent(limit) ==
    /\ ed.open
    /\ ed.events < limit
    /\ \E res \in {Undo(ed)} :
           /\ ed' = [res.ed EXCEPT !.events = @ + 1,
                                   !.trail = Append(@, "undo")]
           /\ ev' = [kind |-> "undo", method |-> ev.method,
                     applied |-> res.popped, raised |-> res.raised,
                     afterEdit |-> ev.kind = "edit",
                     pre |-> ev.pre]
    /\ UNCHANGED <<file, rec, intact, last, saved>>

EdUndo == UndoEvent(MaxEdits)

\* ctrl+q: the window closes and edit_physio applies the collected edits to
\* the record it was given; when one of the calls raises, edit_physio
\* returns nothing and the caller keeps its record.
EdClose ==
    /\ ed.open
    /\ \E res \in {ApplyEdits(ed.orig, ed)} :
           /\ rec' = IF res.ok THEN res.out ELSE rec
           /\ last' = [op |-> "edit_physio", args |-> << >>, ok |-> res.ok,
                       err |-> res.err]
    /\ ed' = NoEditor
    /\ ev' = NoEvent
    /\ intact' = TRUE
    /\ UNCHANGED <<file, saved>>

\* save_history(file, rec): check_physio raises for a record without a
\* sampling rate before the file is opened; otherwise json.dump writes the
\* history to the file, replacing what it held.
DoSaveHistory ==
    /\ ~ed.open
    /\ rec # NoRec
    /\ IF rec.fs = NaN
       THEN /\ saved' = saved
            /\ last' = [op |-> "save_history", args |-> << >>, ok |-> FALSE,
                        err |-> "ValueError: Provided data does not have valid sampling rate."]
       ELSE /\ saved' = [exists |-> TRUE, history |-> rec.history, of |-> rec]
            /\ last' = [op |-> "save_history", args |-> << >>, ok |-> TRUE,
                        err |-> NoErr]
    /\ intact' = TRUE
    /\ ev' = NoEvent
    /\ UNCHANGED <<file, rec, ed>>

\* load_history(file) of the history file as it is on disk: open() raises
\* when save_history has not written it; every exception is caught by
\* @logger.catch
LoadHistoryFile(sv, samples, exists, nanDist) ==
    IF ~sv.exists
    THEN [ok |-> FALSE, rec |-> NoRec, err |-> "FileNotFoundError",
          raised |-> FALSE]
    ELSE LoadHistory(sv.history, samples, exists, nanDist)

\* rec = load_history(file): the caller holds None when load_history caught
\* an exception or found nothing to replay.  The file is the one the last
\* save_history wrote, whatever was done to the record since.
DoLoadHistory ==
    /\ ~ed.open
    /\ \E nd \in NanDistances, exists \in BOOLEAN :
       \E res \in {LoadHistoryFile(saved, file, exists, nd)} :
           /\ rec' = IF res.ok THEN res.rec ELSE NoRec
           /\ last' = [op |-> "load_history", args |-> << >>,
                       ok |-> res.ok, err |-> res.err]
    /\ intact' = TRUE
    /\ ev' = NoEvent
    /\ UNCHANGED <<file, ed, saved>>

Next ==
    \/ DoFilter /\ UNCHANGED <<call, result, pf, gui>>
    \/ DoInterpolate /\ UNCHANGED <<call, result, pf, gui>>
    \/ DoPeakfind /\ UNCHANGED <<call, result, pf, gui>>
    \/ DoDelete /\ UNCHANGED <<call, result, pf, gui>>
    \/ DoReject /\ UNCHANGED <<call, result, pf, gui>>
    \/ DoAdd /\ UNCHANGED <<call, result, pf, gui>>
    \/ DoFmriEcgClean /\ UNCHANGED <<call, result, pf, gui>>
    \/ DoNeurokit /\ UNCHANGED <<call, result, pf, gui>>
    \/ DoEditOpen /\ UNCHANGED <<call, result, pf, gui>>
    \/ EdOnEdit /\ UNCHANGED <<call, result, pf, gui>>
    \/ EdUndo /\ UNCHANGED <<call, result, pf, gui>>
    \/ EdClose /\ UNCHANGED <<call, result, pf, gui>>
    \/ DoSaveHistory /\ UNCHANGED <<call, result, pf, gui>>
    \/ DoLoadHistory /\ UNCHANGED <<call, result, pf, gui>>

Spec == Init /\ [][Next]_vars

(***************************************************************************)
(* The helper functions of utils.py called on their own, as the tests call *)
(* them: a behaviour is one call, kept with its arguments and its result.  *)
(* The samples the call works on are those of `file`.                      *)
(***************************************************************************)
UtilInit ==
    /\ file \in DataSet
    /\ rec = NoRec
    /\ intact = TRUE
    /\ last = [op |-> "none", args |-> << >>, ok |-> FALSE, err |-> NoErr]
    /\ ed = NoEditor
    /\ ev = NoEvent
    /\ call = NoCall
    /\ result = NoResult
    /\ pf = NoFinder
    /\ gui = NoGui
    /\ saved = NoSaved

\* the keyword values test_get_call passes: the defaults 10 and 20, or an
\* array
KwargValues == {PyInt(10), PyInt(20), PyArray(<<1, 2, 3>>)}

\* tests.utils.get_call_func(arg1, arg2, kwarg1=..., serializable=...)
CallGetCallFunc ==
    \E arg1 \in {1, 11}, arg2 \in {2, 21}, kwarg1 \in KwargValues,
       kwarg2 \in KwargValues, serializable \in BOOLEAN :
        /\ call = NoCall
        /\ call' = [fn |-> "get_call_func",
                    argspec |-> ArgSpecGetCallFunc,
                    locals |-> LocalsGetCallFunc(arg1, arg2, kwarg1, kwarg2,
                                                 serializable),
                    exclude |-> {"exclude", "serializable"},
                    serializable |-> serializable]
        /\ result' = GetCallFunc(arg1, arg2, kwarg1, kwarg2, serializable)
        /\ UNCHANGED <<file, rec, intact, last, ed, ev, pf, gui, saved>>

\* the thresholds handed to the detectors, in tenths: below 0, inside
\* [0, 1] and above 1
UtilThreshs == {-1, 0, 2, 4, 10, 11}

\* utils.get_extrema(data, peaks, thresh)
CallGetExtrema ==
    \E peaks \in BOOLEAN, tnum \in UtilThreshs :
        /\ call = NoCall
        /\ call' = [fn |-> "get_extrema", data |-> file, peaks |-> peaks,
                    tnum |-> tnum]
        /\ result' = GetExtrema(file, peaks, tnum)
        /\ UNCHANGED <<file, rec, intact, last, ed, ev, pf, gui, saved>>

\* operations.peakfind_physio(load_physio(data, fs=4), thresh=thresh):
\* refined tells whether the call got as far as the check_troughs call, past
\* the second find_peaks
CallPeakfindPhysio ==
    \E tnum \in UtilThreshs, nd \in NanDistances :
        /\ call = NoCall
        /\ call' = [fn |-> "peakfind_physio", data |-> file, tnum |-> tnum,
                    coarse |-> Len(FirstPass(file, 4, tnum, DistNone).locs)]
        /\ \E res \in {PeakfindPhysio(LoadPhysioArray(file, 4, << >>), tnum,
                                       DistNone, nd)} :
               result' = [ok |-> res.ok,
                          err |-> res.err,
                          refined |-> res.err = MissingTroughs,
                          v  |-> IF res.ok THEN res.out.peaks ELSE << >>,
                          troughs |-> IF res.ok THEN res.out.troughs
                                      ELSE << >>]
        /\ UNCHANGED <<file, rec, intact, last, ed, ev, pf, gui, saved>>

\* records for filter_physio: short ones, and records of zeros as long as
\* the padding of filtfilt for a low- or highpass and for a band filter, and
\* one sample longer
FilterData ==
    {[i \in 1..DataLen |-> (i * k) % (MaxVal + 1)] : k \in 0..MaxVal} \cup
    {Zeros(PadLen(m, Order) + more) : m \in ValidMethods, more \in {0, 1}}

\* the sampling rates of these records: none, and one with Nyquist at 4 Hz
UtilFs == {NaN, 8}

\* one cutoff below, at and above Nyquist, and pairs of them
UtilCutoffs ==
    {<<c>> : c \in 0..5} \cup {<<1, 2>>, <<1, 4>>, <<2, 5>>, <<0, 2>>}

\* operations.filter_physio(load_physio(data, fs=fs), cutoffs, method)
CallFilterPhysio ==
    \E data \in FilterData, fs \in UtilFs, cutoffs \in UtilCutoffs,
       method \in ValidMethods \cup {"notch"} :
        /\ call = NoCall
        /\ call' = [fn |-> "filter_physio", data |-> data, fs |-> fs,
                    cutoffs |-> cutoffs, method |-> method, order |-> Order]
        /\ \E res \in {FilterPhysio(LoadPhysioArray(data, fs, << >>),
                                     cutoffs, method, Order)} :
               result' = [ok |-> res.ok,
                          err |-> res.err,
                          v  |-> IF res.ok THEN res.out.data ELSE << >>]
        /\ UNCHANGED <<file, rec, intact, last, ed, ev, pf, gui, saved>>

\* the candidates handed to min_peak_dist: what get_extrema returns, a
\* strictly increasing array of indices, and the arrays of up to MaxLocs
\* indices in any order
MaxLocs == 2

LocArrays ==
    {SortedOfSet(S) : S \in SUBSET (0..(DataLen - 1))} \cup
    UNION {[1..n -> 0..(DataLen - 1)] : n \in 0..MaxLocs}

\* the distances handed to min_peak_dist, in samples
MinDists == {0, 1, 2, 3}

\* utils.min_peak_dist(data, locs, peaks, dist)
CallMinPeakDist ==
    /\ call = NoCall
    /\ \E locs \in LocArrays, peaks \in BOOLEAN, dist \in MinDists :
       \E idx \in AmplitudeOrders(file, locs, peaks) :
           /\ call' = [fn |-> "min_peak_dist", data |-> file, locs |-> locs,
                       peaks |-> peaks, dist |-> dist]
           /\ result' = [ok |-> TRUE,
                         v  |-> MinPeakDist(file, locs, idx, dist)]
    /\ UNCHANGED <<file, rec, intact, last, ed, ev, pf, gui, saved>>

\* strictly increasing peaks, two or three of them, and up to two troughs
PeakArrays ==
    {SortedOfSet(S) : S \in {T \in SUBSET (0..(DataLen - 1)) :
                                Cardinality(T) \in {2, 3}}}

TroughArrays ==
    {SortedOfSet(S) : S \in {T \in SUBSET (0..(DataLen - 1)) :
                                Cardinality(T) <= 2}}

\* utils.check_troughs(data, peaks, troughs)
CallCheckTroughs ==
    \E peaks \in PeakArrays, troughs \in TroughArrays :
        /\ call = NoCall
        /\ call' = [fn |-> "check_troughs", data |-> file, peaks |-> peaks,
                    troughs |-> troughs]
        /\ result' = CheckTroughs(file, peaks, troughs)
        /\ UNCHANGED <<file, rec, intact, last, ed, ev, pf, gui, saved>>

UtilNext ==
    \/ CallCheckTroughs
    \/ CallFilterPhysio
    \/ CallGetCallFunc
    \/ CallGetExtrema
    \/ CallMinPeakDist
    \/ CallPeakfindPhysio

UtilSpec == UtilInit /\ [][UtilNext]_vars

(***************************************************************************)
(* One editor session: _PhysioEditor is constructed on a record with peaks *)
(* and the user selects spans and presses ctrl+z.                          *)
(***************************************************************************)
\* the longest session
SessionEdits == 5

SessionData == {<<0, 1, 0, 1, 0>>, <<0, 2, 1, 2, 0>>, <<1, 0, 2, 0, 1>>}

\* the records the session starts from: saved records with a sampling rate,
\* peaks and troughs, which edit_physio hands to the editor
SessionRecords(d) ==
    {r \in SavedRecords(d) :
        r.fs # NaN /\ PeaksOf(r) # << >> /\ r.troughs # << >>}

SessionInit ==
    /\ file \in SessionData
    /\ rec \in SessionRecords(file)
    /\ intact = TRUE
    /\ last = Loaded("Physio")
    /\ ed = EditorInit(rec)
    /\ ev = NoEvent
    /\ call = NoCall
    /\ result = NoResult
    /\ pf = NoFinder
    /\ gui = NoGui
    /\ saved = NoSaved

SessionOnEdit == OnEditEvent(SessionEdits) /\ UNCHANGED <<call, result, pf, gui>>

SessionUndo == UndoEvent(SessionEdits) /\ UNCHANGED <<call, result, pf, gui>>

SessionNext ==
    \/ SessionOnEdit
    \/ SessionUndo

SessionSpec == SessionInit /\ [][SessionNext]_vars

Limb == 16384

LimbBits == 14

RECURSIVE NatBig(_)
NatBig(n) == IF n = 0 THEN << >> ELSE <<n % Limb>> \o NatBig(n \div Limb)

RECURSIVE BigNat(_)
BigNat(b) == IF b = << >> THEN 0 ELSE b[1] + Limb * BigNat(Tail(b))

\* b without the zeros at its high end
BigTrim(b0) ==
    Only({SubSeq(b, 1, Only({i \in 0..Len(b) :
                               /\ i = 0 \/ b[i] # 0
                               /\ \A j \in (i + 1)..Len(b) : b[j] = 0})) :
          b \in {b0 \o << >>}})

DigitAt(b, i) == IF i <= Len(b) THEN b[i] ELSE 0

\* the number whose digit i is s[i], every s[i] below 2 * Limb: a carry
\* enters digit i when a lower digit overflows and every digit between
\* passes the carry on
BigCarry(s0) ==
    Only({BigTrim([i \in 1..(Len(s) + 1) |->
              (DigitAt(s, i) +
               (IF \E j \in 1..(i - 1) :
                      /\ s[j] >= Limb
                      /\ \A k \in (j + 1)..(i - 1) : s[k] = Limb - 1
                THEN 1 ELSE 0)) % Limb]) :
          s \in {s0 \o << >>}})

BigAdd(a0, b0) ==
    Only({BigCarry([i \in 1..(IF Len(a) >= Len(b) THEN Len(a) ELSE Len(b)) |->
                       DigitAt(a, i) + DigitAt(b, i)]) :
          a \in {a0 \o << >>}, b \in {b0 \o << >>}})

\* the number whose digit i is d[i], every d[i] above -Limb, the whole not
\* negative: a borrow leaves digit i when a lower digit is negative and
\* every digit between is zero
BigBorrow(d0) ==
    Only({BigTrim([i \in 1..Len(d) |->
              (d[i] + Limb -
               (IF \E j \in 1..(i - 1) :
                      /\ d[j] < 0
                      /\ \A k \in (j + 1)..(i - 1) : d[k] = 0
                THEN 1 ELSE 0)) % Limb]) :
          d \in {d0 \o << >>}})

\* a - b for a >= b
BigSub(a0, b0) ==
    Only({BigBorrow([i \in 1..Len(a) |-> a[i] - DigitAt(b, i)]) :
          a \in {a0 \o << >>}, b \in {b0 \o << >>}})

BigGeq(a0, b0) ==
    Only({IF Len(a) # Len(b) THEN Len(a) > Len(b)
          ELSE \/ a = b
               \/ \E i \in 1..Len(a) :
                     a[i] > b[i] /\ \A j \in (i + 1)..Len(a) : a[j] = b[j] :
          a \in {a0 \o << >>}, b \in {b0 \o << >>}})

\* a * Limb^k
BigShiftDigits(a, k) == IF a = << >> THEN a ELSE [i \in 1..k |-> 0] \o a

\* a * k for a digit k
BigMulDigit(a0, k) ==
    Only({BigAdd(BigTrim([i \in 1..Len(p) |-> p[i] % Limb]),
                 BigShiftDigits(BigTrim([i \in 1..Len(p) |-> p[i] \div Limb]),
                                1)) :
          p \in {Only({[i \in 1..Len(a) |-> a[i] * k] \o << >> :
                         a \in {a0 \o << >>}})}})

\* a * (the digits of b from the i-th on)
RECURSIVE BigMulAt(_, _, _)
BigMulAt(a, b, i) ==
    IF i > Len(b) THEN << >>
    ELSE Only({BigAdd(BigMulDigit(a, b[i]), BigShiftDigits(hi, 1)) :
                  hi \in {BigMulAt(a, b, i + 1)}})

BigMul(a, b) == BigMulAt(a, b, 1)

BigMulNat(a, n) == BigMul(a, NatBig(n))

\* a * 2^k and a \div 2^k
BigShl(a, k) ==
    BigShiftDigits(BigMulDigit(a, 2 ^ (k % LimbBits)), k \div LimbBits)

BigShr(a, k) ==
    Only({BigTrim([i \in 1..Len(b) |->
                      b[i] \div p + (DigitAt(b, i + 1) % p) * (Limb \div p)]) :
          b \in {SubSeq(a, k \div LimbBits + 1, Len(a))},
          p \in {2 ^ (k % LimbBits)}})

\* the number of binary digits of a
BigLen(a) ==
    IF a = << >> THEN 0
    ELSE LimbBits * (Len(a) - 1) +
         Only({j \in 1..LimbBits :
                 2 ^ (j - 1) <= a[Len(a)] /\ a[Len(a)] < 2 ^ j})

\* the k-th binary digit of a, the lowest being the first
BigBit(a, k) ==
    (DigitAt(a, (k - 1) \div LimbBits + 1) \div 2 ^ ((k - 1) % LimbBits)) % 2

\* the number of binary zeros at the low end of a, a # << >>
BigTz(a) ==
    Only({LimbBits * (i - 1) +
          Only({j \in 0..(LimbBits - 1) :
                  a[i] % 2 ^ (j + 1) # 0 /\ a[i] % 2 ^ j = 0}) :
          i \in {Only({i \in 1..Len(a) :
                        a[i] # 0 /\ \A j \in 1..(i - 1) : a[j] = 0})}})

\* the digit q with q * d <= r < (q + 1) * d, for r < d * Limb and the
\* highest digit of d at least Limb / 2: the two highest digits of r by
\* the highest of d give q or up to two more
QuotDigit(r, d) ==
    IF Len(r) < Len(d) THEN 0
    ELSE Only({Only({q \in {qh - 2, qh - 1, qh} :
                       /\ q >= 0
                       /\ BigGeq(r, BigMulDigit(d, q))
                       /\ ~BigGeq(r, BigMulDigit(d, q + 1))}) :
                 qh \in {Only({IF t >= Limb THEN Limb - 1 ELSE t :
                                 t \in {(DigitAt(r, Len(d) + 1) * Limb +
                                         r[Len(d)]) \div d[Len(d)]}})}})

\* one step of the long division: the next digit of the quotient and the
\* remainder it leaves of r
DivStep(r0, d) ==
    Only({Only({<<qd, BigSub(r, BigMulDigit(d, qd))>> :
                   qd \in {QuotDigit(r, d)}}) :
             r \in {r0}})

\* quotient and remainder of the digits i..1 of n brought down on the
\* remainder r, by d > 0: the long division
RECURSIVE BigDivFrom(_, _, _, _, _)
BigDivFrom(n, d, i, r, q) ==
    IF i = 0 THEN [q |-> BigTrim(q), r |-> r]
    ELSE Only({BigDivFrom(n, d, i - 1, p[2], <<p[1]>> \o q) :
                  p \in {DivStep(BigTrim(<<n[i]>> \o r), d)}})

\* n \div d and n % d, d > 0; both are shifted first to bring the highest
\* digit of d to Limb / 2 or more, and the division starts with as many
\* digits of n as d has
BigDivMod(n0, d0) ==
    Only({Only({[q |-> x.q, r |-> BigShr(x.r, sh)] :
                   x \in {Only({IF Len(n) < Len(d)
                                THEN [q |-> << >>, r |-> n]
                                ELSE BigDivFrom(n, d, Len(n) - Len(d) + 1,
                                         BigTrim(SubSeq(n, Len(n) - Len(d) + 2,
                                                        Len(n))), << >>) :
                                  n \in {BigShl(n0, sh)},
                                  d \in {BigShl(d0, sh)}})}}) :
             sh \in {LimbBits * Len(d0) - BigLen(d0)}})

\* the integer square root of t < 2^30 by Newton's iteration from x above it
RECURSIVE IntSqrtFrom(_, _)
IntSqrtFrom(t, x) ==
    Only({IF y >= x THEN x ELSE IntSqrtFrom(t, y) : y \in {(x + t \div x) \div 2}})

\* one step of Newton's iteration for the square root of n
SqrtStep(n0, x0) ==
    Only({BigShr(BigAdd(x, BigDivMod(n, x).q), 1) : n \in {n0}, x \in {x0}})

\* the integer square root of n >= 2^60: the root of the 29 or 30 highest
\* binary digits gives 14 digits of it, two steps of Newton's iteration
\* bring that to the root or one more
BigSqrt(n0) ==
    Only({Only({Only({Only({Only({c \in {BigSub(x, <<1>>), x, BigAdd(x, <<1>>)} :
                              /\ BigGeq(n, BigMul(c, c))
                              /\ ~BigGeq(n, BigMul(BigAdd(c, <<1>>),
                                                   BigAdd(c, <<1>>)))}) :
                        x \in {SqrtStep(n, SqrtStep(n, BigShl(NatBig(r + 1),
                                                              sh \div 2)))}}) :
                  r \in {IntSqrtFrom(BigNat(BigShr(n, sh)), 32768)}}) :
             sh \in {BigLen(n) - 30 + (BigLen(n) % 2)}}) :
          n \in {n0}})

(***************************************************************************)
(* Doubles.  A double is its sign, its significand as a natural number    *)
(* with an odd value, and its binary exponent; every operation gives the  *)
(* double nearest to the exact result, a half going to the even           *)
(* neighbour, as IEEE 754 arithmetic does.                                 *)
(***************************************************************************)
FlZero == [neg |-> FALSE, m |-> << >>, e |-> 0]

\* the double m * 2^e with the significand made odd
FlNorm(m0, e) ==
    Only({IF m = << >> THEN FlZero
          ELSE Only({[neg |-> FALSE, m |-> BigShr(m, tz), e |-> e + tz] :
                        tz \in {BigTz(m)}}) :
          m \in {m0}})

\* the double nearest to (m + s) * 2^e, where 0 < s < 1 when sticky and
\* s = 0 otherwise: the significand is cut to 53 binary digits
FlRound(m0, sticky, e) ==
    Only({IF BigLen(m) <= 53 THEN FlNorm(m, e)
          ELSE LET k == BigLen(m) - 53
                   hi == BigShr(m, k)
                   low == BigShl(BigShr(m, k - 1), k - 1) # m
                   up == /\ BigBit(m, k) = 1
                         /\ (low \/ sticky \/ BigBit(hi, 1) = 1)
               IN  FlNorm(IF up THEN BigAdd(hi, <<1>>) ELSE hi, e + k) :
          m \in {m0}})

FlNeg(x) == IF x.m = << >> THEN x ELSE [x EXCEPT !.neg = ~x.neg]

FlAbs(x) == [x EXCEPT !.neg = FALSE]

FlSigned(neg, x) == IF neg THEN FlNeg(x) ELSE x

FlNat(n) == FlNorm(NatBig(n), 0)

\* float(n) of an integer n
FlInt(n) == IF n < 0 THEN FlNeg(FlNat(-n)) ELSE FlNat(n)

\* |x| >= |y|
FlMagGeq(x, y) ==
    IF y.m = << >> THEN TRUE
    ELSE IF x.m = << >> THEN FALSE
    ELSE IF BigLen(x.m) + x.e # BigLen(y.m) + y.e
    THEN BigLen(x.m) + x.e > BigLen(y.m) + y.e
    ELSE IF x.e >= y.e THEN BigGeq(BigShl(x.m, x.e - y.e), y.m)
    ELSE BigGeq(x.m, BigShl(y.m, y.e - x.e))

\* x <= y
FlLeq(x0, y0) ==
    Only({IF x = y THEN TRUE
          ELSE IF x.neg # y.neg THEN x.neg
          ELSE IF x.neg THEN FlMagGeq(x, y)
          ELSE FlMagGeq(y, x) :
          x \in {x0}, y \in {y0}})

\* x < y
FlLt(x0, y0) == Only({x # y /\ FlLeq(x, y) : x \in {x0}, y \in {y0}})

\* x + y
FlAdd(x0, y0) ==
    Only({IF x.m = << >> THEN y
          ELSE IF y.m = << >> THEN x
          ELSE Only({Only({
                   IF x.neg = y.neg
                   THEN FlSigned(x.neg, FlRound(BigAdd(a, b), FALSE, e0))
                   ELSE IF BigGeq(a, b)
                   THEN FlSigned(x.neg, FlRound(BigSub(a, b), FALSE, e0))
                   ELSE FlSigned(y.neg, FlRound(BigSub(b, a), FALSE, e0)) :
                       a \in {BigShl(x.m, x.e - e0)},
                       b \in {BigShl(y.m, y.e - e0)}}) :
                 e0 \in {IF x.e <= y.e THEN x.e ELSE y.e}}) :
          x \in {x0}, y \in {y0}})

\* x - y
FlSub(x, y) == FlAdd(x, FlNeg(y))

\* x * y
FlMul(x0, y0) ==
    Only({IF x.m = << >> \/ y.m = << >> THEN FlZero
          ELSE FlSigned(x.neg # y.neg,
                        FlRound(BigMul(x.m, y.m), FALSE, x.e + y.e)) :
          x \in {x0}, y \in {y0}})

\* x / y, y # 0
FlDiv(x0, y0) ==
    Only({IF x.m = << >> THEN FlZero
          ELSE LET s == IF 55 + BigLen(y.m) > BigLen(x.m)
                        THEN 55 + BigLen(y.m) - BigLen(x.m) ELSE 0
               IN  Only({FlSigned(x.neg # y.neg,
                                  FlRound(d.q, d.r # << >>, x.e - y.e - s)) :
                            d \in {BigDivMod(BigShl(x.m, s), y.m)}}) :
          x \in {x0}, y \in {y0}})

\* the square root of x >= 0
FlSqrt(x0) ==
    Only({IF x.m = << >> THEN FlZero
          ELSE Only({Only({Only({
                   FlRound(q, BigMul(q, q) # n, (x.e - s) \div 2) :
                       q \in {BigSqrt(n)}}) :
                       n \in {BigShl(x.m, s)}}) :
                       s \in {(x.e % 2) +
                              2 * ((IF BigLen(x.m) < 110
                                    THEN 110 - BigLen(x.m) ELSE 0) \div 2)}}) :
          x \in {x0}})

\* n * x, n a natural number
FlMulNat(n, x) == FlMul(FlNat(n), x)

\* int(x): the integer part of a double of less than 2^31
FlTrunc(x0) ==
    Only({IF x.m = << >> THEN 0
          ELSE (IF x.neg THEN -1 ELSE 1) *
               (IF x.e >= 0 THEN BigNat(BigShl(x.m, x.e))
                ELSE BigNat(BigShr(x.m, -x.e))) :
          x \in {x0}})

\* math.ceil(x) of a double of less than 2^31
FlCeil(x0) ==
    Only({IF x.e >= 0 \/ x.neg THEN FlTrunc(x) ELSE FlTrunc(x) + 1 :
          x \in {x0}})

\* the number of elements of np.arange(start, stop, step):
\* ceil((stop - start) / step), computed in doubles, and none when that is
\* negative
ArangeLen(start, stop, step) ==
    Only({IF n < 0 THEN 0 ELSE n :
             n \in {FlCeil(FlDiv(FlSub(stop, start), step))}})

\* element i of np.arange(start, stop, step): the first is start, the second
\* start + step, the others start + i * delta with delta the difference of
\* the first two
ArangeAt(start, step, i) ==
    IF i = 0 THEN start
    ELSE IF i = 1 THEN FlAdd(start, step)
    ELSE FlAdd(start, FlMul(FlNat(i), FlSub(FlAdd(start, step), start)))

(***************************************************************************)
(* physio.py: the PeakFinder object (Physio, ScaledPhysio, FilteredPhysio, *)
(* InterpolatedPhysio, PeakFinder).  The functions it calls in utils that  *)
(* utils.py does not define (normalize, bandpass_filt, peakfinder,         *)
(* troughfinder) are modelled from their documentation and their use.      *)
(***************************************************************************)
\* Physio.load_data(col): np.loadtxt(usecols=col) of a text file, or the
\* array itself, whatever col is.  cols are the columns of the file.
LoadData(dinput, col) ==
    IF dinput.file THEN dinput.cols[col + 1] ELSE dinput.cols[1]

RECURSIVE SumSeq(_)
SumSeq(s) == IF s = << >> THEN 0 ELSE s[1] + SumSeq(Tail(s))

\* utils.normalize(rawdata), centred and standardized data: every sample
\* minus the mean, here times the number of samples to stay in the
\* integers (the positive factor 1 / std changes no comparison made on the
\* data).
Normalize(x) == [i \in 1..Len(x) |-> Len(x) * x[i] - SumSeq(x)]

\* A signal of the PeakFinder: the samples v, and the filters and splines
\* applied to them since, in order.  The samples those return are not
\* computed; len is the number of samples there are now.
Exact(x) == [v |-> x, ops |-> << >>, len |-> Len(x)]

Applied(s, op, len) == [s EXCEPT !.ops = Append(@, op), !.len = len]

\* PeakFinder(data, fs, col): col is kept to tell what the object was
\* constructed with; clean is the signal without any filtering; stack holds
\* the running calls of get_peaks and get_troughs, innermost last.
PeakFinderNew(dinput, fs, col) ==
    With(Exact(Normalize(LoadData(dinput, col))), LAMBDA d :
        [built |-> TRUE, dinput |-> dinput, col |-> col,
         rawfs |-> fs, fs |-> fs,
         base |-> d, data |-> d, clean |-> d,
         peakinds |-> << >>, troughinds |-> << >>, rejected |-> << >>,
         stack |-> << >>, args |-> [tnum |-> 0, dist |-> 0],
         lastop |-> "init", err |-> "none", ops |-> 0])

\* PeakFinder.reset(hard): peaks and troughs are emptied; a soft reset sets
\* data to a copy of _data; a hard reset runs
\* FilteredPhysio.__init__(self._dinput, self._rawfs), with the default col.
PfResetBody(p, hard) ==
    IF hard
    THEN With(Exact(Normalize(LoadData(p.dinput, 0))), LAMBDA d :
            [p EXCEPT !.peakinds = << >>, !.troughinds = << >>,
                      !.fs = p.rawfs, !.base = d, !.data = d])
    ELSE [p EXCEPT !.peakinds = << >>, !.troughinds = << >>,
                   !.data = p.base]

\* the time points of interpolate(order) for n > 0 samples at fs:
\* t = np.arange(0, n / fs, 1. / fs), cut to n elements when it has more,
\* and tn = np.arange(0, t[-1], 1. / (fs * order)).  tlen and len are the
\* numbers of elements of t and tn.
InterpolateTimes(n, fs, order) ==
    Only({Only({[tlen |-> tlen,
                 len |-> ArangeLen(FlZero,
                                   ArangeAt(FlZero, step, tlen - 1),
                                   FlDiv(FlNat(1), FlNat(fs * order)))] :
                   tlen \in {Only({IF l > n THEN n ELSE l :
                                      l \in {ArangeLen(FlZero,
                                                       FlDiv(FlNat(n),
                                                             FlNat(fs)),
                                                       step)}})}}) :
             step \in {FlDiv(FlNat(1), FlNat(fs))}})

\* InterpolatedPhysio.interpolate(order): a spline through self.data, the
\* data as filtered so far, is sampled at the points tn and stored in
\* _data; fs is multiplied by order; self.reset() follows.  ok is FALSE when
\* t[-1] raises on no sample and when the cubic spline is refused, for
\* fewer than four samples or for as many time points as samples.
PfInterpolateBody(p, order) ==
    IF p.data.len < 4 THEN [ok |-> FALSE, pf |-> p]
    ELSE With(InterpolateTimes(p.data.len, p.fs, order), LAMBDA tn :
            IF tn.tlen # p.data.len THEN [ok |-> FALSE, pf |-> p]
            ELSE [ok |-> TRUE,
                  pf |-> PfResetBody(
                             [p EXCEPT
                                 !.base = Applied(p.data, "spline", tn.len),
                                 !.fs = p.fs * order], FALSE)])

\* utils.bandpass_filt(data, fs, flims, btype): the filtered data, a
\* third-order Butterworth filter run through signal.filtfilt.  ok is FALSE
\* when filtfilt raises on data no longer than its padding.
BandpassFilt(x, btype) ==
    IF x.len <= PadLen(btype, Order) THEN [ok |-> FALSE, v |-> x]
    ELSE [ok |-> TRUE, v |-> Applied(x, btype, x.len)]

\* FilteredPhysio.bandpass / lowpass / highpass(flims): self.data is
\* replaced by utils.bandpass_filt(self.data, self.fs, flims, btype).
PfFilterBody(p, btype) ==
    With(BandpassFilt(p.data, btype), LAMBDA f :
        IF ~f.ok THEN [ok |-> FALSE, pf |-> p]
        ELSE [ok |-> TRUE, pf |-> [p EXCEPT !.data = f.v]])

\* round(x) of Python for x = num / den, num >= 0, den > 0: to the nearest
\* integer, a half to the even one
RoundHalfEven(num, den) ==
    LET q == num \div den
        r == num % den
    IN  IF 2 * r < den THEN q
        ELSE IF 2 * r > den THEN q + 1
        ELSE IF q % 2 = 0 THEN q ELSE q + 1

\* utils.find_peaks / find_troughs(data, thresh, dist): what it can return,
\* one result for each order argsort may give equal samples
Finder(data, peaks, tnum, dist) ==
    With(GetExtrema(data, peaks, tnum), LAMBDA ext :
        IF ~ext.ok THEN {[ok |-> FALSE, v |-> << >>]}
        ELSE {[ok |-> TRUE, v |-> MinPeakDist(data, ext.v, idx, dist)] :
                 idx \in AmplitudeOrders(data, ext.v, peaks)})

\* utils.peakfinder(data, thresh, dist) and utils.troughfinder(data,
\* thresh, dist): the peak and trough detection of utils, find_peaks and
\* find_troughs
Peakfinder(data, tnum, dist) == Finder(data, TRUE, tnum, dist)

Troughfinder(data, tnum, dist) == Finder(data, FALSE, tnum, dist)

\* the two passes of get_peaks and get_troughs: the second pass uses the
\* distance round(np.diff(locs).mean()) / 2 (compared with whole numbers,
\* so its integer part); round raises ValueError on the NaN that fewer than
\* two locations give.
TwoPass(data, peaks, tnum, dist) ==
    UNION {IF ~first.ok \/ Len(first.v) < 2
           THEN {[ok |-> FALSE, v |-> << >>]}
           ELSE With(RoundHalfEven(first.v[Len(first.v)] - first.v[1],
                                   Len(first.v) - 1) \div 2, LAMBDA d :
                   IF peaks THEN Peakfinder(data, tnum, d)
                   ELSE Troughfinder(data, tnum, d)) :
           first \in IF peaks THEN Peakfinder(data, tnum, dist)
                      ELSE Troughfinder(data, tnum, dist)}

\* an exception leaves get_peaks / get_troughs and every caller of it
PfRaise(p, kind) ==
    [p EXCEPT !.stack = << >>, !.err = kind, !.ops = @ + 1]

\* the innermost call returns
PfReturn(p) ==
    With(SubSeq(p.stack, 1, Len(p.stack) - 1), LAMBDA rest :
        [p EXCEPT !.stack = rest,
                  !.ops = IF rest = << >> THEN @ + 1 ELSE @])

\* a call made by the innermost call; the interpreter raises RecursionError
\* when `limit` calls are running already
PfCall(p, waiting, callee, limit) ==
    IF Len(p.stack) >= limit THEN PfRaise(p, "RecursionError")
    ELSE [p EXCEPT !.stack =
             SubSeq(p.stack, 1, Len(p.stack) - 1) \o <<waiting, callee>>]

\* get_peaks up to its call of get_troughs
PfPeaksStep(p, limit) ==
    {IF ~res.ok THEN PfRaise(p, "Error")
     ELSE PfCall([p EXCEPT !.peakinds = res.v],
                 "get_peaks:called", "get_troughs", limit) :
        res \in TwoPass(p.data.v, TRUE, p.args.tnum, p.args.dist)}

\* get_troughs from the trough detection on:
\* utils.check_troughs(self.data, troughinds, self.peakinds)
PfTroughsEnd(p) ==
    {IF ~res.ok THEN PfRaise(p, "Error")
     ELSE With(CheckTroughs(p.data.v, res.v, Masked(p.peakinds, p.rejected)),
               LAMBDA ct :
             IF ~ct.ok THEN PfRaise(p, "Error")
             ELSE PfReturn([p EXCEPT !.troughinds = ct.v])) :
        res \in TwoPass(p.data.v, FALSE, p.args.tnum, p.args.dist)}

\* get_troughs from its start: get_peaks is called when rrtime is None, that
\* is when there is no unrejected peak
PfTroughsStep(p, limit) ==
    IF Masked(p.peakinds, p.rejected) = << >>
    THEN {PfCall(p, "get_troughs:called", "get_peaks", limit)}
    ELSE PfTroughsEnd(p)

\* one step of the innermost running call
PfStepBody(p, limit) ==
    With(p.stack[Len(p.stack)], LAMBDA top :
        IF top = "get_peaks" THEN PfPeaksStep(p, limit)
        ELSE IF top = "get_troughs" THEN PfTroughsStep(p, limit)
        ELSE IF top = "get_troughs:called" THEN PfTroughsEnd(p)
        ELSE {PfReturn(p)})

(***************************************************************************)
(* A PeakFinder in use: constructed from a two-column text file or from an *)
(* array, then interpolated, filtered, searched for peaks, edited, reset.  *)
(***************************************************************************)
\* the number of calls made on the object
MaxFinderOps == 3

\* the interpreter's recursion limit
MaxDepth == 6

FinderColumns ==
    << <<0, 2, 0, 3, 0, 2, 0, 3, 0, 2, 0, 3, 1>>,
       <<1, 0, 2, 0, 3, 0, 2, 0, 3, 0, 2, 0, 1>> >>

FinderInputs ==
    {[file |-> TRUE, cols |-> FinderColumns],
     [file |-> FALSE, cols |-> <<FinderColumns[1]>>]}

FinderFs == {4, 8, 10}

FinderThreshs == {4, 8}

FinderInit ==
    /\ file = << >>
    /\ rec = NoRec
    /\ intact = TRUE
    /\ last = [op |-> "none", args |-> << >>, ok |-> FALSE, err |-> NoErr]
    /\ ed = NoEditor
    /\ ev = NoEvent
    /\ call = NoCall
    /\ result = NoResult
    /\ gui = NoGui
    /\ saved = NoSaved
    /\ \E dinput \in FinderInputs, fs \in FinderFs, col \in {0, 1} :
          /\ dinput.file \/ col = 0
          /\ pf = PeakFinderNew(dinput, fs, col)

PfIdle == pf.built /\ pf.stack = << >> /\ pf.ops < MaxFinderOps

\* the detectors are run on samples the model holds: on the data as
\* constructed or reset, before any filter or spline
PfExact == pf.data.ops = << >>

PfOthers == <<file, rec, intact, last, ed, ev, call, result, gui, saved>>

\* pf.interpolate(order=2)
PfInterpolate ==
    /\ PfIdle
    /\ \E res \in {PfInterpolateBody(pf, 2)} :
          pf' = [res.pf EXCEPT
                    !.clean = IF res.ok
                              THEN Applied(@, "spline", res.pf.base.len)
                              ELSE @,
                    !.lastop = "interpolate",
                    !.err = IF res.ok THEN "none" ELSE "Error",
                    !.ops = @ + 1]
    /\ UNCHANGED PfOthers

\* pf.bandpass(flims), pf.lowpass(flims), pf.highpass(flims)
PfFilter ==
    /\ PfIdle
    /\ \E btype \in {"bandpass", "lowpass", "highpass"} :
       \E res \in {PfFilterBody(pf, btype)} :
          pf' = [res.pf EXCEPT !.lastop = "filter",
                               !.err = IF res.ok THEN "none" ELSE "Error",
                               !.ops = @ + 1]
    /\ UNCHANGED PfOthers

\* pf.get_peaks(thresh): dist is None, so dist = int(self.fs / 4)
PfGetPeaks ==
    /\ PfIdle
    /\ PfExact
    /\ \E tnum \in FinderThreshs :
          pf' = [pf EXCEPT !.stack = <<"get_peaks">>,
                           !.args = [tnum |-> tnum, dist |-> pf.fs \div 4],
                           !.lastop = "get_peaks", !.err = "none"]
    /\ UNCHANGED PfOthers

\* pf.get_troughs(thresh)
PfGetTroughs ==
    /\ PfIdle
    /\ PfExact
    /\ \E tnum \in FinderThreshs :
          pf' = [pf EXCEPT !.stack = <<"get_troughs">>,
                           !.args = [tnum |-> tnum, dist |-> pf.fs \div 4],
                           !.lastop = "get_troughs", !.err = "none"]
    /\ UNCHANGED PfOthers

\* the running call of get_peaks / get_troughs goes on
PfStep ==
    /\ pf.built
    /\ pf.stack # << >>
    /\ pf' \in PfStepBody(pf, MaxDepth)
    /\ UNCHANGED PfOthers

\* pf.reset() and pf.reset(hard=True)
PfReset ==
    /\ PfIdle
    /\ \E hard \in BOOLEAN :
          pf' = [PfResetBody(pf, hard) EXCEPT
                    !.clean = IF hard
                              THEN Exact(Normalize(LoadData(pf.dinput, pf.col)))
                              ELSE @,
                    !.lastop = IF hard THEN "hard_reset" ELSE "reset",
                    !.err = "none",
                    !.ops = @ + 1]
    /\ UNCHANGED PfOthers

\* pf.edit_peaks(): in the editor window one unrejected peak, or all of
\* them, are rejected
PfEditPeaks ==
    /\ PfIdle
    /\ Masked(pf.peakinds, pf.rejected) # << >>
    /\ \E S \in {SeqSet(Masked(pf.peakinds, pf.rejected))} \cup
                {{q} : q \in SeqSet(Masked(pf.peakinds, pf.rejected))} :
          pf' = [pf EXCEPT
                    !.rejected = SortedOfSet(SeqSet(@) \cup S),
                    !.lastop = "edit_peaks", !.err = "none", !.ops = @ + 1]
    /\ UNCHANGED PfOthers

FinderNext ==
    \/ PfInterpolate
    \/ PfFilter
    \/ PfGetPeaks
    \/ PfGetTroughs
    \/ PfStep
    \/ PfReset
    \/ PfEditPeaks

FinderSpec == FinderInit /\ [][FinderNext]_vars

(***************************************************************************)
(* gui.py: the PeakDetector window.  Texts (file names, paths) are the     *)
(* sequences of their character codes; spinbox texts are numbers, the      *)
(* threshold in thousandths and the SD in tenths, BadText a text float()   *)
(* rejects.  Sample values and times are doubles.                          *)
(***************************************************************************)
BadText == -1

\* s.find(sub): the index of the first occurrence of sub in s, or -1
Find(s, sub) ==
    LET at == {i \in 0..(Len(s) - Len(sub)) :
                  SubSeq(s, i + 1, i + Len(sub)) = sub}
    IN  IF at = {} THEN -1 ELSE CHOOSE i \in at : \A j \in at : i <= j

\* s < t for two texts, as Python compares strings
RECURSIVE StrLess(_, _)
StrLess(s, t) ==
    IF t = << >> THEN FALSE
    ELSE IF s = << >> THEN TRUE
    ELSE IF Head(s) # Head(t) THEN Head(s) < Head(t)
    ELSE StrLess(Tail(s), Tail(t))

\* sorted(names) for names that differ from one another
SortNames(names) ==
    [k \in 1..Len(names) |->
        names[CHOOSE i \in 1..Len(names) :
                 Cardinality({j \in 1..Len(names) :
                                 StrLess(names[j], names[i])}) = k - 1]]

\* "ECG"
Str_ECG == <<69, 67, 71>>

\* "Resp"
Str_Resp == <<82, 101, 115, 112>>

\* "new.1D"
Str_new_1D == <<110, 101, 119, 46, 49, 68>>

\* "scan_00"
Str_scan_00 == <<115, 99, 97, 110, 95, 48, 48>>

\* "RRT"
Str_RRT == <<82, 82, 84>>

\* "RRT_"
Str_RRT_ == <<82, 82, 84, 95>>

\* "RRT_reject_"
Str_RRT_reject_ == <<82, 82, 84, 95, 114, 101, 106, 101, 99, 116, 95>>

\* ".notes"
Str_notes == <<46, 110, 111, 116, 101, 115>>

\* "/"
Str_slash == <<47>>

\* "/data"
PrefPath == <<47, 100, 97, 116, 97>>

\* the data files of the directory PrefPath, in the order os.listdir gives
\* them: the name of each and the samples np.loadtxt reads from it
DataFiles ==
    << [name |-> <<82, 101, 115, 112, 95, 114, 117, 110, 49, 46, 116, 120, 116>>,   \* "Resp_run1.txt"
        samples |->
          <<4, 4, 4, 4, 4, 4, 9, 9, 9, 9, 9, 9, 9, 9, 9, 9, 9, 9, 9, 9, 9,
            9, 0, 0, 0, 8, 8, 8, 8, 8, 8, 8, 8, 8, 8, 8, 8, 8, 7, 7, 7, 7,
            7, 7, 7, 7, 7, 9, 9, 9, 9, 9, 9, 9, 9, 9, 9, 9, 9, 9, 9, 9, 9,
            9, 0, 0, 0, 0, 0, 0, 0, 0, 0, 0, 0, 0, 0, 0, 0, 0, 0, 7, 7, 7,
            7, 7, 7, 7, 7, 7, 7, 5, 5, 5, 5, 5, 5, 5, 5, 5, 5, 5, 5, 5, 5>>],
       [name |-> <<69, 67, 71, 95, 114, 117, 110, 49, 46, 116, 120, 116>>,   \* "ECG_run1.txt"
        samples |->
          <<0, 0, 0, 0, 0, 0, 0, 0, 100, 100, 0, 0, 0, 0, 0, 0, 0, 0, 0, 0,
            0, 0, 0, 0, 0, 0, 100, 100, 0, 0, 0, 0, 0, 0, 0, 0, 0, 0, 0, 0,
            0, 0, 0, 0, 100, 100, 0, 0, 0, 0, 0, 0>>],
       [name |-> <<110, 111, 116, 101, 115, 46, 116, 120, 116>>,   \* "notes.txt"
        samples |->
          <<1, 2, 1>>],
       [name |-> <<69, 67, 71, 95, 115, 99, 97, 110, 95, 48, 48, 46, 116, 120, 116>>,   \* "ECG_scan_00.txt"
        samples |->
          <<0, 0, 0, 0, 0, 0, 100, 100, 100, 0, 0, 0, 0, 0, 0, 0, 0, 0, 0,
            0, 0, 0, 0, 0, 0, 0, 0, 100, 100, 100, 0, 0, 0, 0, 0, 0, 0, 0,
            0, 0, 0, 0, 0, 0, 0, 0, 0, 0, 100, 100, 100, 0, 0, 0, 0, 0>>],
       [name |-> <<82, 101, 115, 112, 95, 110, 101, 119, 46, 49, 68>>,   \* "Resp_new.1D"
        samples |->
          <<1, 2, 1>>],
       [name |-> <<69, 67, 71, 95, 115, 104, 111, 114, 116, 46, 116, 120, 116>>,   \* "ECG_short.txt"
        samples |->
          <<3, 5, 4, 6, 2>>]>>
\* a double from its sign, significand and exponent
Dbl(sgn, m, e) == [neg |-> sgn = 1, m |-> m, e |-> e]

Filtered_run1 ==
    << Dbl(1, <<14765, 15957, 10235, 231>>, -51),
       Dbl(0, <<4201, 4554, 549, 287>>, -49),
       Dbl(0, <<7253, 636, 5412, 1214>>, -50),
       Dbl(0, <<7851, 11100, 15566, 1767>>, -50),
       Dbl(0, <<2257, 7593, 14297, 1101>>, -49),
       Dbl(0, <<13079, 12979, 11355, 624>>, -48),
       Dbl(0, <<10019, 1956, 963, 1320>>, -49),
       Dbl(0, <<2595, 12714, 3751, 328>>, -47),
       Dbl(0, <<9907, 4307, 7539, 1232>>, -49),
       Dbl(0, <<13357, 12900, 1837, 544>>, -48),
       Dbl(0, <<2639, 8256, 14947, 1787>>, -50),
       Dbl(0, <<9763, 6403, 4226, 333>>, -48),
       Dbl(0, <<1577, 6837, 4906, 1698>>, -51),
       Dbl(0, <<3745, 7686, 13166, 748>>, -51),
       Dbl(1, <<8623, 9103, 10890, 220>>, -52),
       Dbl(1, <<12385, 10400, 7873, 1633>>, -52),
       Dbl(1, <<3423, 13431, 11303, 330>>, -49),
       Dbl(1, <<14703, 9466, 7818, 1599>>, -51),
       Dbl(1, <<9717, 5041, 5744, 1639>>, -51),
       Dbl(1, <<14333, 2913, 15663, 1456>>, -51),
       Dbl(1, <<15695, 6165, 9471, 1087>>, -51),
       Dbl(1, <<8543, 1747, 13447, 291>>, -50),
       Dbl(1, <<1825, 5472, 10318, 1186>>, -58),
       Dbl(0, <<9765, 6845, 3437, 283>>, -50),
       Dbl(0, <<10535, 2986, 3602, 538>>, -50),
       Dbl(0, <<113, 8230, 9325, 1462>>, -51),
       Dbl(0, <<9291, 4401, 7028, 840>>, -50),
       Dbl(0, <<5791, 13644, 9502, 1705>>, -51),
       Dbl(0, <<11001, 1916, 6743, 1531>>, -51),
       Dbl(0, <<12765, 12783, 11960, 1173>>, -51),
       Dbl(0, <<3339, 1747, 1293, 1334>>, -52),
       Dbl(0, <<10673, 4059, 2388, 986>>, -55),
       Dbl(1, <<11889, 11090, 10533, 290>>, -50),
       Dbl(1, <<5075, 13212, 14105, 597>>, -50),
       Dbl(1, <<4057, 5011, 11720, 214>>, -48),
       Dbl(1, <<1655, 14195, 1021, 523>>, -49),
       Dbl(1, <<5941, 12960, 9475, 1139>>, -50),
       Dbl(1, <<4873, 6692, 5925, 564>>, -49),
       Dbl(1, <<15605, 14978, 4025, 2027>>, -51),
       Dbl(1, <<15951, 15955, 5108, 1609>>, -51),
       Dbl(1, <<13751, 11387, 1714, 521>>, -50),
       Dbl(1, <<14245, 16325, 9259, 1510>>, -53),
       Dbl(0, <<4917, 15510, 2085, 1301>>, -53),
       Dbl(0, <<9349, 9122, 8227, 251>>, -49),
       Dbl(0, <<14787, 4075, 1783, 1608>>, -51),
       Dbl(0, <<5441, 11296, 215, 1042>>, -50),
       Dbl(0, <<10713, 10632, 11369, 599>>, -49),
       Dbl(0, <<6023, 11069, 3482, 1266>>, -50),
       Dbl(0, <<4803, 3657, 2603, 310>>, -48),
       Dbl(0, <<1457, 9201, 13510, 1128>>, -50),
       Dbl(0, <<6467, 16069, 5493, 1888>>, -51),
       Dbl(0, <<11037, 4585, 12604, 705>>, -50)>>

Filtered_scan_00 ==
    << Dbl(1, <<14661, 3633, 10813, 1161>>, -54),
       Dbl(0, <<939, 5519, 3530, 326>>, -50),
       Dbl(0, <<1483, 11151, 560, 695>>, -50),
       Dbl(0, <<9993, 15098, 13182, 31>>, -45),
       Dbl(0, <<7995, 3415, 377, 20>>, -44),
       Dbl(0, <<16325, 1923, 11081, 738>>, -49),
       Dbl(0, <<12087, 5654, 129, 1601>>, -50),
       Dbl(0, <<7415, 11731, 10719, 1652>>, -50),
       Dbl(0, <<2787, 11638, 3675, 409>>, -48),
       Dbl(0, <<1049, 14108, 4223, 1562>>, -50),
       Dbl(0, <<9487, 13449, 1931, 360>>, -48),
       Dbl(0, <<1187, 1207, 6640, 321>>, -48),
       Dbl(0, <<5927, 9609, 9439, 556>>, -49),
       Dbl(0, <<5155, 13268, 13728, 938>>, -50),
       Dbl(0, <<7801, 3050, 12165, 777>>, -50),
       Dbl(0, <<12061, 11478, 7982, 1286>>, -51),
       Dbl(0, <<15423, 4233, 2186, 2>>, -42),
       Dbl(0, <<4341, 14774, 1072, 988>>, -51),
       Dbl(0, <<8519, 5995, 3015, 981>>, -51),
       Dbl(0, <<15645, 8709, 11896, 267>>, -49),
       Dbl(0, <<1741, 12804, 1951, 1248>>, -51),
       Dbl(0, <<2097, 415, 11967>>, -40),
       Dbl(0, <<6373, 11319, 4362, 895>>, -50),
       Dbl(0, <<4705, 15489, 12159, 1051>>, -50),
       Dbl(0, <<1471, 2188, 13824, 600>>, -49),
       Dbl(0, <<4775, 1754, 10130, 664>>, -49),
       Dbl(0, <<1049, 7909, 12423, 709>>, -49),
       Dbl(0, <<9679, 10267, 14125, 729>>, -49),
       Dbl(0, <<613, 4244, 651, 1440>>, -50),
       Dbl(0, <<16273, 12030, 5399, 1354>>, -50),
       Dbl(0, <<2625, 6184, 9969, 1200>>, -50),
       Dbl(0, <<10035, 14994, 10718, 122>>, -47),
       Dbl(0, <<5395, 12685, 13472, 702>>, -50),
       Dbl(0, <<10603, 15098, 12726, 751>>, -51),
       Dbl(0, <<6125, 7799, 13505, 1819>>, -57),
       Dbl(1, <<5621, 12837, 44, 732>>, -51),
       Dbl(1, <<12767, 10909, 7690, 1494>>, -51),
       Dbl(1, <<15391, 14807, 12834, 1111>>, -50),
       Dbl(1, <<6997, 2506, 7936, 721>>, -49),
       Dbl(1, <<14751, 11756, 3400, 1726>>, -50),
       Dbl(1, <<1309, 2010, 14280, 1949>>, -50),
       Dbl(1, <<12237, 11280, 7646, 526>>, -48),
       Dbl(1, <<8773, 13316, 15586, 1094>>, -49),
       Dbl(1, <<10877, 2155, 11907, 1100>>, -49),
       Dbl(1, <<803, 14408, 14141, 535>>, -48),
       Dbl(1, <<2383, 9969, 14687, 1010>>, -49),
       Dbl(1, <<7643, 49, 11925, 1844>>, -50),
       Dbl(1, <<15473, 12511, 4122, 1622>>, -50),
       Dbl(1, <<14039, 7565, 8311, 1365>>, -50),
       Dbl(1, <<7461, 2740, 3947, 1086>>, -50),
       Dbl(1, <<15399, 12738, 2496, 398>>, -49),
       Dbl(1, <<11453, 9234, 13396, 2028>>, -52),
       Dbl(1, <<14999, 4865, 7773, 1837>>, -53),
       Dbl(0, <<6145, 15472, 9123, 1705>>, -56),
       Dbl(0, <<5613, 8564, 5270, 2029>>, -53),
       Dbl(0, <<1777, 9829, 8149, 222>>, -49)>>

\* the path of data file f: prefPath + '/' + actFile
FilePath(f) == PrefPath \o Str_slash \o DataFiles[f].name

\* fnmatch.filter(names, 'RRT*'): the names that begin with RRT
FnmatchRRT(names) ==
    SelectSeq(names, LAMBDA n : Len(n) >= 3 /\ SubSeq(n, 1, 3) = Str_RRT)

\* os.listdir(prefPath) once every peak file and the notes directory exist
DirNames ==
    [f \in 1..Len(DataFiles) |-> DataFiles[f].name] \o
    [f \in 1..Len(DataFiles) |-> Str_RRT_ \o DataFiles[f].name] \o
    [f \in 1..Len(DataFiles) |-> Str_RRT_reject_ \o DataFiles[f].name] \o
    <<Str_notes>>

\* self._allFiles of _load_file: the directory without .notes and without
\* the names fnmatch finds for 'RRT*', sorted.  The peak files the window
\* writes all begin with RRT, so the list is the same whichever of them
\* exist; it is held as the numbers of the data files.
AllFilesOf(names) ==
    With(SelectSeq(names, LAMBDA n : n # Str_notes), LAMBDA listed :
    With(FnmatchRRT(listed), LAMBDA rrt :
        SortNames(SelectSeq(listed,
                            LAMBDA n : \A k \in 1..Len(rrt) : rrt[k] # n))))

AllFiles ==
    With(AllFilesOf(DirNames), LAMBDA names :
        [k \in 1..Len(names) |->
            CHOOSE f \in 1..Len(DataFiles) : DataFiles[f].name = names[k]])
    \o << >>

\* the file type _load_file reads from the path, "none" where it raises
\* TypeError
FtypeOf(fname) ==
    IF Find(fname, Str_ECG) # -1 THEN "ECG"
    ELSE IF Find(fname, Str_Resp) # -1 THEN "Resp"
    ELSE "none"

\* the sampling rate _load_file reads from the path
FsOf(fname) ==
    IF Find(fname, Str_new_1D) # -1 THEN 1000
    ELSE IF Find(fname, Str_scan_00) # -1 THEN 50
    ELSE 40

\* the double of the decimal a / b
Dec(a, b) == FlDiv(FlInt(a), FlInt(b))

\* winsize of _find_peaks: int(0.25 * fs) or int(1.0 * fs)
Winsize(ftype, fs) ==
    IF ftype = "ECG" THEN FlTrunc(FlMul(Dec(25, 100), FlInt(fs)))
    ELSE FlTrunc(FlMul(FlInt(1), FlInt(fs)))

\* self._order of _find_peaks: int(0.35 * fs) or int(1.0 * fs)
GuiOrder(ftype, fs) ==
    IF ftype = "ECG" THEN FlTrunc(FlMul(Dec(35, 100), FlInt(fs)))
    ELSE FlTrunc(FlMul(FlInt(1), FlInt(fs)))

\* the number of elements of np.arange(0, n / fs, 1. / fs)
TimeLen(n, fs) ==
    ArangeLen(FlZero, FlDiv(FlInt(n), FlInt(fs)), FlDiv(FlInt(1), FlInt(fs)))

\* np.arange(0, n / fs, 1. / fs)
TimeOf(n, fs) ==
    With(FlDiv(FlInt(1), FlInt(fs)), LAMBDA step :
        [i \in 1..TimeLen(n, fs) |-> ArangeAt(FlZero, step, i - 1)] \o << >>)

\* np.arange(start, stop, step)[0:size]
ArangeHead(start, stop, step, size) ==
    [i \in 1..Min2(size, ArangeLen(start, stop, step)) |->
        ArangeAt(start, step, i - 1)] \o << >>

\* run_avg_filt(signal, winsize) for integer samples: np.mean of every
\* window is the sum of its samples, which is exact, divided by their number
RunAvgFilt(signal, winsize) ==
    LET halfWin == ((winsize - (winsize % 2)) \div 2) + 1
        bottom(x) == IF x < winsize THEN 0 ELSE x
    IN  [x \in 1..Len(signal) |->
            With(Slice(signal, bottom((x - 1) - halfWin + (winsize % 2)),
                       (x - 1) + halfWin), LAMBDA win :
                FlDiv(FlInt(SumSeq(win)), FlInt(Len(win))))] \o << >>

\* index clipping of scipy.signal.argrelextrema (mode='clip')
ClipIdx(s, j) == Max2(0, Min2(Len(s) - 1, j))

\* scipy.signal.argrelmax(signal, order=order)[0]
ArgRelMax(s, order) ==
    SelectSeq([i \in 1..Len(s) |-> i - 1], LAMBDA i :
        \A k \in 1..order :
            /\ FlLt(Idx(s, ClipIdx(s, i + k)), Idx(s, i))
            /\ FlLt(Idx(s, ClipIdx(s, i - k)), Idx(s, i)))

\* scipy.signal.argrelmin(signal, order=order)[0]
ArgRelMin(s, order) ==
    SelectSeq([i \in 1..Len(s) |-> i - 1], LAMBDA i :
        \A k \in 1..order :
            /\ FlLt(Idx(s, i), Idx(s, ClipIdx(s, i + k)))
            /\ FlLt(Idx(s, i), Idx(s, ClipIdx(s, i - k))))

\* np.interp(x, xp, yp) at one point x for increasing xp of two or more
\* points: the end values outside, the line through the two neighbours
\* inside
Interp(x, xp, yp) ==
    IF FlLt(x, xp[1]) THEN yp[1]
    ELSE IF FlLeq(xp[Len(xp)], x) THEN yp[Len(yp)]
    ELSE With(CHOOSE j \in 1..(Len(xp) - 1) :
                  FlLeq(xp[j], x) /\ FlLt(x, xp[j + 1]), LAMBDA j :
            FlAdd(FlMul(FlDiv(FlSub(yp[j + 1], yp[j]),
                              FlSub(xp[j + 1], xp[j])),
                        FlSub(x, xp[j])),
                  yp[j]))

\* extrap_signal(x_new, xp, yp): np.interp, and a straight line through the
\* first (last) two points before (after) them.  ok is FALSE where the code
\* raises: np.interp for xp and yp of different lengths or none, yp[1] for
\* one point.
ExtrapSignal(xnew, xp, yp) ==
    IF Len(xp) # Len(yp) \/ Len(xp) = 0
    THEN [ok |-> FALSE, err |-> "ValueError", v |-> << >>]
    ELSE IF Len(xp) < 2
    THEN [ok |-> FALSE, err |-> "IndexError", v |-> << >>]
    ELSE [ok |-> TRUE, err |-> "none",
          v |-> [k \in 1..Len(xnew) |->
                   With(xnew[k], LAMBDA x :
                       IF FlLt(x, xp[1])
                       THEN FlAdd(yp[1],
                                  FlDiv(FlMul(FlSub(x, xp[1]),
                                              FlSub(yp[1], yp[2])),
                                        FlSub(xp[1], xp[2])))
                       ELSE IF FlLt(xp[Len(xp)], x)
                       THEN FlAdd(yp[Len(yp)],
                                  FlDiv(FlMul(FlSub(x, xp[Len(xp)]),
                                              FlSub(yp[Len(yp)],
                                                    yp[Len(yp) - 1])),
                                        FlSub(xp[Len(xp)], xp[Len(xp) - 1])))
                       ELSE Interp(x, xp, yp))] \o << >>]

\* element i of an array for a Python index i, negative ones counting from
\* the end; HasIndex tells whether the index exists
HasIndex(s, i) == i >= -Len(s) /\ i < Len(s)

At(s, i) == IF i < 0 THEN s[Len(s) + i + 1] ELSE s[i + 1]

\* one row of averageSig in avg_peak_wave: the 2 * rrAvg samples around
\* peak p, extrapolated where the window passes an end of the signal.  ok is
\* FALSE where the code raises: time[high] past the end, extrap_signal, a
\* row of another length than 2 * rrAvg (one value is broadcast).
PeakWindow(signal, time, fs, p, rrAvg) ==
    LET high == IF p + rrAvg > Len(signal) THEN -1 ELSE p + rrAvg
        low  == IF p - rrAvg < 0 THEN 0 ELSE p - rrAvg
        temp == Slice(signal, low, high)
        step == FlDiv(FlInt(1), FlInt(fs))
        span == FlMul(FlInt(2 * rrAvg), step)
        Row(r) ==
            IF ~r.ok THEN r
            ELSE IF Len(r.v) = 2 * rrAvg THEN r
            ELSE IF Len(r.v) = 1
            THEN [r EXCEPT !.v = [k \in 1..(2 * rrAvg) |-> r.v[1]]]
            ELSE [ok |-> FALSE, err |-> "ValueError", v |-> << >>]
    IN  IF Len(temp) # 2 * rrAvg /\ low = 0
        THEN IF ~HasIndex(time, high)
             THEN [ok |-> FALSE, err |-> "IndexError", v |-> << >>]
             ELSE Row(ExtrapSignal(
                          ArangeHead(FlSub(At(time, high), span),
                                     At(time, high), step, 2 * rrAvg),
                          Slice(time, low, high), temp))
        ELSE IF Len(temp) # 2 * rrAvg /\ high = -1
        THEN Row(ExtrapSignal(
                     ArangeHead(At(time, low), FlAdd(At(time, low), span),
                                step, 2 * rrAvg),
                     Slice(time, low, high), temp))
        ELSE Row([ok |-> TRUE, err |-> "none", v |-> temp])

\* avg_peak_wave(signal, fs, order): the peaks and the waveform around each.
\* rrAvg is int(np.mean(differences) / 2), the differences of successive
\* peaks adding up to the last peak minus the first; int() raises
\* ValueError on the NaN that fewer than two peaks give.
AvgPeakWave(signal, fs, order) ==
    With(ArgRelMax(signal, order), LAMBDA peakind :
        IF Len(peakind) < 2
        THEN [ok |-> FALSE, err |-> "ValueError", averageSig |-> << >>,
              peakind |-> peakind]
        ELSE
    With((peakind[Len(peakind)] - peakind[1]) \div (2 * (Len(peakind) - 1)),
         LAMBDA rrAvg :
    With(TimeOf(Len(signal), fs), LAMBDA time :
    With([x \in 1..Len(peakind) |->
             PeakWindow(signal, time, fs, peakind[x], rrAvg)] \o << >>,
         LAMBDA rows :
        IF \E x \in 1..Len(rows) : ~rows[x].ok
        THEN [ok |-> FALSE,
              err |-> rows[CHOOSE x \in 1..Len(rows) :
                               /\ ~rows[x].ok
                               /\ \A y \in 1..(x - 1) : rows[y].ok].err,
              averageSig |-> << >>, peakind |-> peakind]
        ELSE [ok |-> TRUE, err |-> "none",
              averageSig |-> [x \in 1..Len(rows) |-> rows[x].v] \o << >>,
              peakind |-> peakind]))))

\* the troughs among troughs whose amplitude is not the smallest of theirs:
\* troughs[np.where(trough_amp != trough_amp.min())[0]]
BadTroughs(signal, troughs) ==
    SelectSeq(troughs, LAMBDA t :
        \E k \in 1..Len(troughs) : FlLt(Idx(signal, troughs[k]), Idx(signal, t)))

\* for t in bad_troughs: troughind = np.delete(troughind, where(== t))
WithoutTroughs(troughind, bad) ==
    SelectSeq(troughind, LAMBDA t : \A k \in 1..Len(bad) : bad[k] # t)

\* the loop of trough_det over the peaks 1 .. peakind.size - 1: where no
\* trough lies between two peaks, every position of the minimum between
\* them is appended and the array sorted; where several lie, those above
\* the lowest are deleted
RECURSIVE TroughDetLoop(_, _, _, _)
TroughDetLoop(signal, peakind, troughind, peak) ==
    IF peak > Len(peakind) - 1 THEN troughind
    ELSE
        LET lo      == Idx(peakind, peak - 1)
            hi      == Idx(peakind, peak)
            troughs == SelectSeq(troughind, LAMBDA t : t > lo /\ t <= hi)
            snippet == Slice(signal, lo, hi)
            mins    == SelectSeq([k \in 1..Len(snippet) |-> lo + k - 1],
                           LAMBDA i :
                               \A k \in 1..Len(snippet) :
                                   FlLeq(Idx(signal, i), snippet[k]))
        IN  TroughDetLoop(signal, peakind,
                IF troughs = << >> THEN Sorted(troughind \o mins)
                ELSE IF Len(troughs) > 1
                THEN WithoutTroughs(troughind, BadTroughs(signal, troughs))
                ELSE troughind,
                peak + 1)

\* trough_det(signal, fs, order, peakind)
TroughDet(signal, order, peakind) ==
    With(TroughDetLoop(signal, peakind, ArgRelMin(signal, order), 1),
         LAMBDA t1 :
    With(WithoutTroughs(t1,
             BadTroughs(signal,
                 SelectSeq(t1, LAMBDA t : t > peakind[Len(peakind)]))),
         LAMBDA t2 :
        WithoutTroughs(t2,
            BadTroughs(signal, SelectSeq(t2, LAMBDA t : t < peakind[1])))))

\* the sum of the doubles of a sequence, added one after the other
RECURSIVE FlSumFrom(_, _, _)
FlSumFrom(s, k, acc) ==
    IF k > Len(s) THEN acc ELSE FlSumFrom(s, k + 1, FlAdd(acc, s[k]))

FlSum(s) == FlSumFrom(s, 2, s[1])

\* np.mean(averageSig, 0) and np.std(averageSig, 0) of column j: the sum
\* of the rows divided by their number, and the root of the mean of the
\* squared differences from that mean
ColumnMeanStd(averageSig, j) ==
    With(FlInt(Len(averageSig)), LAMBDA n :
    With(FlDiv(FlSum([r \in 1..Len(averageSig) |-> averageSig[r][j]]), n),
         LAMBDA mean :
        [mean |-> mean,
         std  |-> FlSqrt(FlDiv(FlSum([r \in 1..Len(averageSig) |->
                                  With(FlSub(averageSig[r][j], mean),
                                       LAMBDA d : FlMul(d, d))]), n))]))

MeanStd(averageSig) ==
    [j \in 1..Len(averageSig[1]) |-> ColumnMeanStd(averageSig, j)] \o << >>

\* round(c / w, 3) in thousandths, for 0 <= c <= w: the multiple of 0.001
\* nearest to the double c / w, the even one when the double lies half way
\* between two
PyRound3(c, w) ==
    With(FlDiv(FlInt(c), FlInt(w)), LAMBDA x :
        IF x.m = << >> THEN 0
        ELSE IF x.e >= 0 THEN 1000 * BigNat(BigShl(x.m, x.e))
        ELSE With(BigMul(x.m, NatBig(1000)), LAMBDA num :
             With(BigNat(BigShr(num, -x.e)), LAMBDA q :
                 IF /\ BigBit(num, -x.e) = 1
                    /\ (BigTz(num) < -x.e - 1 \/ q % 2 = 1)
                 THEN q + 1
                 ELSE q)))

\* the loop of thresh_peaks, given the mean and the standard deviation of
\* every column: for every row the share of its samples within sd standard
\* deviations of the mean, rounded to three decimals, in thousandths
ThreshRows(averageSig, ms, sd) ==
    With([j \in 1..Len(ms) |->
             With(FlMul(sd, ms[j].std), LAMBDA ci :
                 [low |-> FlSub(ms[j].mean, ci),
                  high |-> FlAdd(ms[j].mean, ci)])] \o << >>, LAMBDA band :
        [samp \in 1..Len(averageSig) |->
            PyRound3(Cardinality({j \in 1..Len(band) :
                         /\ FlLeq(band[j].low, averageSig[samp][j])
                         /\ FlLeq(averageSig[samp][j], band[j].high)}),
                     Len(band))] \o << >>)

\* thresh_peaks(averageSig, sd); no row gives no value
ThreshPeaks(averageSig, sd) ==
    IF averageSig = << >> THEN << >>
    ELSE ThreshRows(averageSig, MeanStd(averageSig), sd)

\* the tolerances of np.allclose: atol = 1e-08 and rtol = 1e-05
Atol == Dec(1, 100000000)

Rtol == Dec(1, 100000)

\* np.allclose(a, b) for two arrays of doubles of one size:
\* |a - b| <= 1e-08 + 1e-05 * |b| for every element
AllClose(a, b) ==
    \A k \in 1..Len(a) :
        FlLeq(FlAbs(FlSub(a[k], b[k])),
              FlAdd(Atol, FlMul(Rtol, FlAbs(b[k]))))

\* np.allclose(a, b) for two arrays of sample numbers of one size; for
\* whole numbers the tolerance 1e-08 changes nothing
AllCloseInt(a, b) ==
    \A k \in 1..Len(a) :
        With(IF a[k] >= b[k] THEN a[k] - b[k] ELSE b[k] - a[k], LAMBDA d :
            d = 0 \/ 100000 * d <= b[k])

\* bandpass_filt(rasignal, fs, f_lims) of _find_peaks for the run-averaged
\* samples of each data file, where there is one: scipy's Butterworth
\* band-pass filter of order 3 between 0.5 and 2 Hz, run forwards and
\* backwards, is evaluated in doubles outside the model
Filtered ==
    << << >>, Filtered_run1, << >>, Filtered_scan_00, << >>, << >> >>

\* gui.bandpass_filt for data file f: scipy.signal.filtfilt raises ValueError
\* for a signal of no more samples than its padding, 3 * 7
GuiBandpassFilt(f, rasignal) ==
    IF Len(rasignal) <= 21
    THEN [ok |-> FALSE, err |-> "ValueError", v |-> << >>]
    ELSE [ok |-> TRUE, err |-> "none", v |-> Filtered[f]]

\* what _load_file and _find_peaks compute from data file f alone, step by
\* step.  Every step is computed once for every data file.

\* self.time of _load_file, np.arange(0, data.size / fs, 1 / fs)
LoadTime(f) ==
    IF FtypeOf(FilePath(f)) = "none" THEN << >>
    ELSE TimeOf(Len(DataFiles[f].samples), FsOf(FilePath(f)))

GuiTime == [f \in 1..Len(DataFiles) |-> LoadTime(f)] \o << >>

\* rasignal of _find_peaks, run_avg_filt(self.orig_signal, winsize)
LoadRunAvg(f) ==
    IF FtypeOf(FilePath(f)) = "none" THEN << >>
    ELSE RunAvgFilt(DataFiles[f].samples,
                    Winsize(FtypeOf(FilePath(f)), FsOf(FilePath(f))))

GuiRunAvg == [f \in 1..Len(DataFiles) |-> LoadRunAvg(f)] \o << >>

\* self.signal of _find_peaks: the band-pass of rasignal for ECG, rasignal
\* for Resp
LoadSignal(f) ==
    IF FtypeOf(FilePath(f)) = "none"
    THEN [ok |-> FALSE, err |-> "none", v |-> << >>]
    ELSE IF FtypeOf(FilePath(f)) = "ECG"
    THEN GuiBandpassFilt(f, GuiRunAvg[f])
    ELSE [ok |-> TRUE, err |-> "none", v |-> GuiRunAvg[f]]

GuiSignal == [f \in 1..Len(DataFiles) |-> LoadSignal(f)] \o << >>

\* avg_peak_wave(self.signal, self.fs, order) of _find_peaks
LoadWaves(f) ==
    IF ~GuiSignal[f].ok
    THEN [ok |-> FALSE, err |-> "none", averageSig |-> << >>,
          peakind |-> << >>]
    ELSE AvgPeakWave(GuiSignal[f].v, FsOf(FilePath(f)),
                     GuiOrder(FtypeOf(FilePath(f)), FsOf(FilePath(f))))

GuiWaves == [f \in 1..Len(DataFiles) |-> LoadWaves(f)] \o << >>

\* trough_det(self.signal, order, self.peakind) of _find_peaks for Resp
LoadTroughs(f) ==
    IF GuiWaves[f].ok /\ FtypeOf(FilePath(f)) = "Resp"
    THEN TroughDet(GuiSignal[f].v,
                   GuiOrder(FtypeOf(FilePath(f)), FsOf(FilePath(f))),
                   GuiWaves[f].peakind)
    ELSE << >>

GuiTroughs == [f \in 1..Len(DataFiles) |-> LoadTroughs(f)] \o << >>

\* the file type and the sampling rate, self.time, self.signal, and the
\* result of avg_peak_wave and trough_det for data file f.  filterOk and
\* peaksOk are FALSE where bandpass_filt and avg_peak_wave raise; nrows is
\* the number of rows of averageSig.
LoadOf(f, sig, waves) ==
    [ftype |-> FtypeOf(FilePath(f)), fs |-> FsOf(FilePath(f)),
     n |-> Len(DataFiles[f].samples), time |-> GuiTime[f],
     filterOk |-> sig.ok, signal |-> sig.v,
     peaksOk |-> waves.ok, peaksErr |-> waves.err,
     peakind |-> IF waves.ok THEN waves.peakind ELSE << >>,
     nrows |-> Len(waves.averageSig), troughind |-> GuiTroughs[f]]

FileLoad(f) == LoadOf(f, GuiSignal[f], GuiWaves[f])

GuiLoad == [f \in 1..Len(DataFiles) |-> FileLoad(f)] \o << >>

\* the standard deviations thresh_peaks is called with, in tenths: the
\* default 2.5 and the texts of the SD spinbox that are numbers
SdList == <<5, 25>>

\* the rows of _averageSig that are left after np.delete took some away are
\* numbered by the sum of 2^(r - 1) over the rows r left
RECURSIVE MaskNo(_)
MaskNo(rows) ==
    IF rows = << >> THEN 0 ELSE 2 ^ (Head(rows) - 1) + MaskNo(Tail(rows))

RowsOfMask(k, mno) ==
    SelectSeq([r \in 1..k |-> r], LAMBDA r : (mno \div 2 ^ (r - 1)) % 2 = 1)

\* thresh_peaks of every choice of rows of avg_peak_wave's result averageSig
\* for every standard deviation of SdList
GoodOf(averageSig) ==
    [mno \in 1..(2 ^ Len(averageSig) - 1) |->
        With(RowsOfMask(Len(averageSig), mno), LAMBDA rows :
        With([x \in 1..Len(rows) |-> averageSig[rows[x]]], LAMBDA left :
        With(MeanStd(left), LAMBDA ms :
            [s \in 1..Len(SdList) |->
                ThreshRows(left, ms, Dec(SdList[s], 10))] \o << >>)))]
    \o << >>

\* the directory the window is opened in, as the program sees it: for every
\* data file what _load_file and _find_peaks compute from its samples, and
\* what thresh_peaks makes of the rows of its _averageSig
GuiDir ==
    [load |-> GuiLoad,
     good |-> [f \in 1..Len(DataFiles) |-> GoodOf(GuiWaves[f].averageSig)]
              \o << >>]

\* thresh_peaks(self._averageSig, sd) for the rows numbered rows of data file
\* f and sd = tenths / 10, as the directory dir has it
GoodIndOf(dir, f, rows, tenths) ==
    IF rows = << >> THEN << >>
    ELSE dir.good[f][MaskNo(rows)]
                 [CHOOSE s \in 1..Len(SdList) : SdList[s] = tenths]
(***************************************************************************)
(* The PeakDetector object.  Its attributes are the fields of one record:  *)
(*   fname                  the data file self.fname names, 0 before one   *)
(*   cur                    the data file whose ftype, fs, orig_signal,    *)
(*                          time and _allFiles the object holds, which     *)
(*                          _load_file sets one after the other            *)
(*   sigOf                  the data file self.signal was filtered from    *)
(*   avgOf, rows            self._averageSig: rows of avg_peak_wave's      *)
(*                          result for a data file                         *)
(*   zd                     which of keepPeaks, rejectPeaks and troughind  *)
(*                          are arrays of no dimension, as np.loadtxt      *)
(*                          gives for a file of one row                    *)
(*   shown                  the pickable lines of the lower plot in the    *)
(*                          order drawn: the file whose time they were     *)
(*                          drawn with, and their sample numbers           *)
(*   dlg                    the dialogs that are open, innermost last,     *)
(*                          each with what its handler does when answered  *)
(*   dir                    in a handler: the data files of the directory, *)
(*                          with what numpy and scipy compute from each    *)
(*   notesDir, rrt, rej     whether the directory .notes exists, and the   *)
(*                          files RRT_<name> and RRT_reject_<name>         *)
(*   lastev, err, found     the last handler, the exception it raised, and *)
(*                          whether it ran _find_peaks to its end          *)
(* 0, FALSE and << >> stand for an attribute that is not set yet.          *)
(***************************************************************************)
NoPeakFile == [exists |-> FALSE, rows |-> << >>]

\* the object after PeakDetector(root), in a directory without peak files
GuiNew ==
    [open |-> TRUE, inited |-> FALSE, plotExists |-> FALSE,
     giveWarnings |-> FALSE, autoSave |-> FALSE, mode |-> 0,
     threshold |-> 0, std |-> 0, spinShown |-> FALSE,
     fname |-> 0, cur |-> 0, sigOf |-> 0,
     hasPeaks |-> FALSE, avgOf |-> 0, rows |-> << >>,
     peakind |-> << >>, goodInd |-> << >>,
     keepPeaks |-> << >>, rejectPeaks |-> << >>,
     hasTroughs |-> FALSE, troughind |-> << >>, zd |-> {},
     shown |-> << >>, dlg |-> << >>,
     notesDir |-> FALSE,
     rrt |-> [f \in 1..Len(DataFiles) |-> NoPeakFile],
     rej |-> [f \in 1..Len(DataFiles) |-> NoPeakFile],
     lastev |-> "init", err |-> "none", found |-> FALSE, events |-> 0]

\* the handler stops with exception e
Raise(g, e) == [g EXCEPT !.err = e]

\* F goes on from g unless an exception was raised
Then(g0, F(_)) == With(g0, LAMBDA g : IF g.err # "none" THEN g ELSE F(g))

\* self.ftype
Ftype(g) == g.dir.load[g.cur].ftype

\* self.signal
Signal(g) == g.dir.load[g.sigOf].signal

\* self.time[a] for sample numbers a
TimeAt(g, f, a) == [k \in 1..Len(a) |-> Idx(g.dir.load[f].time, a[k])]

\* _init_buttons and _init_plot
InitButtons(g) ==
    [g EXCEPT !.inited = TRUE, !.giveWarnings = TRUE, !.autoSave = FALSE,
              !.mode = 0, !.threshold = 950, !.std = 25,
              !.spinShown = TRUE]

\* _plot_signals(newFile): both plots are cleared and drawn anew; the first
\* plot call that raises ends it.  ax.plot raises ValueError for x and y of
\* different lengths, self.time[...] and self.signal[...] IndexError for a
\* sample number they do not have.
PlotSignals(g0, newFile) ==
    With([g0 EXCEPT !.plotExists = TRUE, !.shown = << >>], LAMBDA g :
        LET info == g.dir.load[g.cur]
            Fits(a) ==
                \A k \in 1..Len(a) :
                    a[k] < Len(info.time) /\ a[k] < Len(Signal(g))
            Line(a) == [tf |-> g.cur, idx |-> a]
        IN  IF g.cur = 0 THEN Raise(g, "AttributeError")
            ELSE IF Len(info.time) # info.n THEN Raise(g, "ValueError")
            ELSE IF g.sigOf = 0 THEN Raise(g, "AttributeError")
            ELSE IF Len(info.time) # Len(Signal(g))
            THEN Raise(g, "ValueError")
            ELSE IF ~g.hasPeaks THEN Raise(g, "AttributeError")
            ELSE IF ~Fits(g.keepPeaks) THEN Raise(g, "IndexError")
            ELSE IF ~Fits(g.rejectPeaks)
            THEN Raise([g EXCEPT !.shown = <<Line(g.keepPeaks)>>],
                       "IndexError")
            ELSE With([g EXCEPT !.shown = <<Line(g.keepPeaks),
                                             Line(g.rejectPeaks)>>],
                      LAMBDA g2 :
                IF info.ftype # "Resp" THEN g2
                ELSE IF ~g.hasTroughs THEN Raise(g2, "AttributeError")
                ELSE IF ~Fits(g.troughind) THEN Raise(g2, "IndexError")
                ELSE [g2 EXCEPT !.shown = Append(@, Line(g.troughind))]))

\* np.sort(np.append(arr, vals))
SortAppend(arr, vals) == Sorted(arr \o vals)

\* _get_above_thresh(thresh): the boolean index raises IndexError when
\* _goodInd and peakind differ in length, before anything is assigned.
GetAboveThresh(g, thresh) ==
    IF ~g.hasPeaks THEN Raise(g, "AttributeError")
    ELSE IF Len(g.goodInd) # Len(g.peakind) THEN Raise(g, "IndexError")
    ELSE With(SelectSeq([k \in 1..Len(g.peakind) |-> k],
                        LAMBDA k : g.goodInd[k] >= thresh), LAMBDA ks :
         With([j \in 1..Len(ks) |-> g.peakind[ks[j]]], LAMBDA keep :
            [g EXCEPT !.keepPeaks = keep,
                      !.rejectPeaks = SetDiff1d(g.peakind, keep),
                      !.zd = @ \ {"keep", "reject"}]))

\* _find_peaks for the file of self.orig_signal
GuiFindPeaks(g) ==
    With(g.dir.load[g.cur], LAMBDA info :
        IF ~info.filterOk THEN Raise(g, "ValueError")
        ELSE With([g EXCEPT !.sigOf = g.cur], LAMBDA g1 :
            IF ~info.peaksOk THEN Raise(g1, info.peaksErr)
            ELSE With([k \in 1..info.nrows |-> k], LAMBDA rows :
                 With(IF info.ftype = "ECG" THEN 950 ELSE 0, LAMBDA thresh :
                    [GetAboveThresh(
                         [g1 EXCEPT
                             !.hasPeaks = TRUE,
                             !.avgOf = g.cur, !.rows = rows,
                             !.peakind = info.peakind,
                             !.hasTroughs = @ \/ info.ftype = "Resp",
                             !.troughind = IF info.ftype = "Resp"
                                           THEN info.troughind ELSE @,
                             !.zd = IF info.ftype = "Resp"
                                    THEN @ \ {"trough"} ELSE @,
                             !.goodInd = GoodIndOf(g.dir, g.cur, rows, 25),
                             !.threshold = thresh],
                         thresh)
                     EXCEPT !.found = TRUE]))))

\* np.loadtxt(file, usecols=[c], dtype='int64'): column c of the rows, an
\* array of no dimension for one row; ok is FALSE where a row has no
\* column c
LoadTxt(peakfile, c) ==
    IF \E k \in 1..Len(peakfile.rows) : Len(peakfile.rows[k]) <= c
    THEN [ok |-> FALSE, v |-> << >>, zd |-> FALSE]
    ELSE [ok |-> TRUE,
          v  |-> [k \in 1..Len(peakfile.rows) |-> peakfile.rows[k][c + 1]],
          zd |-> Len(peakfile.rows) = 1]

\* with s in or out of the set S as b tells
Flag(S, s, b) == IF b THEN S \cup {s} ELSE S \ {s}

\* lines 313-317 of _load_file: the peaks saved for the file replace the
\* detected ones
LoadPeakFiles(g) ==
    IF ~(g.rrt[g.fname].exists /\ g.rej[g.fname].exists) THEN g
    ELSE With(LoadTxt(g.rrt[g.fname], 0), LAMBDA keep :
         With(LoadTxt(g.rej[g.fname], 0), LAMBDA reject :
         With([g EXCEPT
                  !.keepPeaks = keep.v, !.rejectPeaks = reject.v,
                  !.zd = Flag(Flag(@, "keep", keep.zd), "reject", reject.zd),
                  !.peakind = SortAppend(keep.v, reject.v)], LAMBDA g1 :
            IF Ftype(g) # "Resp" THEN g1
            ELSE With(LoadTxt(g.rrt[g.fname], 1), LAMBDA trough :
                IF ~trough.ok THEN Raise(g1, "IndexError")
                ELSE [g1 EXCEPT !.troughind = trough.v,
                                !.hasTroughs = TRUE,
                                !.zd = Flag(@, "trough", trough.zd)]))))

\* _load_file for self.fname
LoadFile(g0) ==
    With(IF g0.plotExists THEN g0 ELSE InitButtons(g0), LAMBDA g :
        IF g.dir.load[g.fname].ftype = "none"
        THEN Raise(g, "TypeError")
        ELSE Then(Then(GuiFindPeaks(
                      [g EXCEPT
                          !.spinShown = g.dir.load[g.fname].ftype = "ECG",
                          !.cur = g.fname, !.notesDir = TRUE]),
                  LoadPeakFiles),
                  LAMBDA g1 : PlotSignals(g1, TRUE)))

\* _save_notes: open() raises IOError without the directory .notes
SaveNotes(g) == IF g.notesDir THEN g ELSE Raise(g, "IOError")

\* keepPeaks.size, rejectPeaks.size, troughind.size
Size(a) == Len(a)

\* _save_file after the test of the event.  np.savetxt opens the file and
\* then raises ValueError for an array of no dimension, which leaves the
\* file empty; np.hstack raises ValueError for columns of different lengths.
SaveFile(g0) ==
    With([g0 EXCEPT !.notesDir = TRUE], LAMBDA g :
        IF g.cur = 0 THEN Raise(g, "AttributeError")
        ELSE
    Then(IF Ftype(g) = "Resp"
         THEN IF ~g.hasTroughs \/ ~g.hasPeaks THEN Raise(g, "AttributeError")
              ELSE With(IF Size(g.troughind) > Size(g.keepPeaks)
                        THEN [g EXCEPT !.troughind = NpDelete(@, <<0>>),
                                       !.zd = @ \ {"trough"}]
                        ELSE IF Size(g.keepPeaks) > Size(g.troughind)
                        THEN [g EXCEPT !.keepPeaks = NpDelete(@, <<0>>),
                                       !.zd = @ \ {"keep"}]
                        ELSE g, LAMBDA g1 :
                  IF Size(g1.keepPeaks) # Size(g1.troughind)
                  THEN Raise(g1, "ValueError")
                  ELSE [g1 EXCEPT !.rrt[g.fname] =
                           [exists |-> TRUE,
                            rows |-> [k \in 1..Len(g1.keepPeaks) |->
                                         <<g1.keepPeaks[k],
                                           g1.troughind[k]>>]]])
         ELSE IF ~g.hasPeaks THEN Raise(g, "AttributeError")
              ELSE IF "keep" \in g.zd
              THEN Raise([g EXCEPT !.rrt[g.fname] =
                             [exists |-> TRUE, rows |-> << >>]],
                         "ValueError")
              ELSE [g EXCEPT !.rrt[g.fname] =
                       [exists |-> TRUE,
                        rows |-> [k \in 1..Len(g.keepPeaks) |->
                                     <<g.keepPeaks[k]>>]]],
         LAMBDA g2 :
             IF "reject" \in g2.zd
             THEN Raise([g2 EXCEPT !.rej[g.fname] =
                            [exists |-> TRUE, rows |-> << >>]],
                        "ValueError")
             ELSE SaveNotes([g2 EXCEPT !.rej[g.fname] =
                                [exists |-> TRUE,
                                 rows |-> [k \in 1..Len(g2.rejectPeaks) |->
                                              <<g2.rejectPeaks[k]>>]]])))

\* _comp_RRT_file up to its dialog: ask tells whether the dialog opens, err
\* the exception raised before
CompRRT(g) ==
    IF g.rrt[g.fname].exists /\ g.rej[g.fname].exists
    THEN IF ~g.hasPeaks THEN [err |-> "AttributeError", ask |-> FALSE]
         ELSE With(LoadTxt(g.rrt[g.fname], 0).v, LAMBDA compkeep :
              With(LoadTxt(g.rej[g.fname], 0).v, LAMBDA compreject :
                 [err |-> "none",
                  ask |-> /\ g.giveWarnings
                          /\ ~(/\ Size(g.keepPeaks) = Size(compkeep)
                               /\ Size(g.rejectPeaks) = Size(compreject)
                               /\ AllCloseInt(g.keepPeaks, compkeep)
                               /\ AllCloseInt(g.rejectPeaks, compreject))]))
    ELSE [err |-> "none", ask |-> g.giveWarnings]

\* a dialog opens: the handler goes on when it is answered
OpenDialog(g, frame) == [g EXCEPT !.dlg = Append(@, frame)]

\* the innermost dialog is closed
CloseDialog(g) == [g EXCEPT !.dlg = SubSeq(@, 1, Len(@) - 1)]

\* master.quit() and master.destroy(): the window and every dialog are
\* gone, and no handler that waited for a dialog goes on
Destroy(g) == [g EXCEPT !.open = FALSE, !.dlg = << >>]

\* _next_file and _back_file after _save_file or _comp_RRT_file: the notes
\* are saved, the next name of _allFiles (before the first comes the last)
\* becomes self.fname and is loaded
StepFile(g, by) ==
    Then(SaveNotes(g), LAMBDA g1 :
        IF g1.cur = 0 THEN Raise(g1, "AttributeError")
        ELSE With(CHOOSE k \in 1..Len(AllFiles) : AllFiles[k] = g1.fname,
                  LAMBDA ind :
            LoadFile([g1 EXCEPT !.fname =
                         AllFiles[((ind - 1 + by + Len(AllFiles))
                                      % Len(AllFiles)) + 1]])))

\* what follows _comp_RRT_file, or the _save_file its dialog led to, in
\* _next_file, _back_file and _quit
AfterComp(g, cont) ==
    IF cont = "next" THEN StepFile(g, 1)
    ELSE IF cont = "back" THEN StepFile(g, -1)
    ELSE Destroy(g)

\* _comp_RRT_file() and what follows it
CompThen(g, cont) ==
    With(CompRRT(g), LAMBDA c :
        IF c.err # "none" THEN Raise(g, c.err)
        ELSE IF c.ask THEN OpenDialog(g, [kind |-> "save", cont |-> cont])
        ELSE AfterComp(g, cont))

\* _next_file (by = 1) and _back_file (by = -1) after the test of the event
TurnFile(g, by) ==
    With(IF by = 1 THEN "next" ELSE "back", LAMBDA cont :
        IF g.autoSave THEN Then(SaveFile(g), LAMBDA g1 : AfterComp(g1, cont))
        ELSE CompThen(g, cont))

\* xdata.size == arr.size and np.allclose(xdata, self.time[arr]) for the
\* picked line xd: "yes", "no", or the exception of self.time[arr]
Matches(g, xd, arr) ==
    IF Len(xd.idx) # Size(arr) THEN "no"
    ELSE IF \E k \in 1..Len(arr) : arr[k] >= Len(g.dir.load[g.cur].time)
    THEN "IndexError"
    ELSE IF AllClose(TimeAt(g, xd.tf, xd.idx), TimeAt(g, g.cur, arr)) THEN "yes"
    ELSE "no"

\* _on_pick, mode 1, without the np.delete on rejectPeaks
AcceptKeepingRejected(g, i) ==
    IF "reject" \in g.zd THEN Raise(g, "IndexError")
    ELSE [g EXCEPT !.keepPeaks = SortAppend(@, <<Idx(g.rejectPeaks, i)>>),
                   !.zd = @ \ {"keep"}]

\* _on_pick, mode 1 (accept), on the line of the rejected peaks;
\* rejectPeaks[ind[0]] raises IndexError for an array of no dimension
Accept(g, i) ==
    IF "reject" \in g.zd THEN Raise(g, "IndexError")
    ELSE [g EXCEPT !.keepPeaks = SortAppend(@, <<Idx(g.rejectPeaks, i)>>),
                   !.rejectPeaks = NpDelete(@, <<i>>),
                   !.zd = @ \ {"keep"}]

\* _on_pick, mode 2 (reject), on the line of the kept peaks
Reject(g, i) ==
    IF "keep" \in g.zd THEN Raise(g, "IndexError")
    ELSE [g EXCEPT !.rejectPeaks = SortAppend(@, <<Idx(g.keepPeaks, i)>>),
                   !.keepPeaks = NpDelete(@, <<i>>),
                   !.zd = @ \ {"reject"}]

\* the end of a delete for an ECG file: the row of the deleted peak leaves
\* _averageSig, _goodInd and the kept / rejected peaks are computed anew.
\* Every raise (deleted[0], np.delete, float()) keeps what was assigned
\* before it.
DeleteECG(g, deleted) ==
    IF deleted = << >> \/ deleted[1] >= Len(g.rows)
    THEN Raise(g, "IndexError")
    ELSE With([g EXCEPT !.rows = NpDelete(@, <<deleted[1]>>)], LAMBDA g1 :
        IF g1.std = BadText THEN Raise(g1, "ValueError")
        ELSE With([g1 EXCEPT !.goodInd = GoodIndOf(g1.dir, g1.avgOf, g1.rows, g1.std)],
                  LAMBDA g2 :
            IF g2.threshold = BadText THEN Raise(g2, "ValueError")
            ELSE GetAboveThresh(g2, g2.threshold)))

\* the end of a delete for a Resp file: one of the troughs next to the
\* deleted peak, the one nearest in amplitude, is deleted as well.  amp is
\* deleted_amp, -1 when no line matched and it was not assigned.
DeleteResp(g, deleted, amp) ==
    IF g.peakind = << >> THEN Raise(g, "IndexError")
    ELSE IF ~g.hasTroughs THEN Raise(g, "AttributeError")
    ELSE IF g.troughind = << >> \/ "trough" \in g.zd
    THEN Raise(g, "IndexError")
    ELSE IF deleted = << >> THEN Raise(g, "IndexError")
    ELSE
        LET d     == deleted[1]
            first == g.peakind[1] < g.troughind[1]
            sl    == IF first THEN Slice(g.troughind, d - 1, d + 1)
                     ELSE Slice(g.troughind, d, d + 2)
            diffs == [k \in 1..Len(sl) |->
                        FlAbs(FlSub(Idx(Signal(g), sl[k]),
                                    Idx(Signal(g), amp)))]
            least == CHOOSE i \in 1..Len(sl) :
                        /\ \A j \in 1..Len(sl) : FlLeq(diffs[i], diffs[j])
                        /\ \A j \in 1..(i - 1) : FlLt(diffs[i], diffs[j])
            bad   == (IF first THEN d - 1 ELSE d) + (least - 1)
        IN  IF \E k \in 1..Len(sl) : sl[k] >= Len(Signal(g))
            THEN Raise(g, "IndexError")
            ELSE IF amp = -1 THEN Raise(g, "UnboundLocalError")
            ELSE IF amp >= Len(Signal(g)) THEN Raise(g, "IndexError")
            ELSE IF sl = << >> THEN Raise(g, "ValueError")
            ELSE IF ~HasIndex(g.troughind, bad) THEN Raise(g, "IndexError")
            ELSE [g EXCEPT !.troughind =
                     NpDelete(@, <<IF bad < 0 THEN bad + Len(@) ELSE bad>>)]

\* _on_pick, mode 5 (delete), after the dialog was confirmed
Delete(g, xd, i) ==
    With(Matches(g, xd, g.keepPeaks), LAMBDA mk :
    With(IF mk = "no" THEN Matches(g, xd, g.rejectPeaks) ELSE "no",
         LAMBDA mr :
        IF mk = "IndexError" \/ mr = "IndexError"
        THEN Raise(g, "IndexError")
        ELSE IF (mk = "yes" /\ "keep" \in g.zd)
                \/ (mr = "yes" /\ "reject" \in g.zd)
        THEN Raise(g, "IndexError")
        ELSE
    With(IF mk = "yes" THEN [g EXCEPT !.keepPeaks = NpDelete(@, <<i>>)]
         ELSE IF mr = "yes" THEN [g EXCEPT !.rejectPeaks = NpDelete(@, <<i>>)]
         ELSE g, LAMBDA g1 :
    With(IF mk = "yes" THEN Idx(g.keepPeaks, i)
         ELSE IF mr = "yes" THEN Idx(g.rejectPeaks, i)
         ELSE -1, LAMBDA amp :
    With(SortAppend(g1.keepPeaks, g1.rejectPeaks), LAMBDA new :
    With(SetDiff1d([k \in 1..Len(g.peakind) |-> k - 1],
                   SearchSortedAll(g.peakind, new)), LAMBDA deleted :
    With([g1 EXCEPT !.peakind = new], LAMBDA g2 :
        IF Ftype(g) = "ECG" THEN DeleteECG(g2, deleted)
        ELSE DeleteResp(g2, deleted, amp))))))))

\* _on_pick(event) for a click with the left button: xd is the picked line
\* and i = ind[0].  In mode 5 the dialog opens, and rest are the lines of
\* the same click that are picked after this one.
OnPick(g, xd, i, rest) ==
    IF g.mode = 0 THEN g
    ELSE IF Ftype(g) = "Resp" /\ ~g.hasTroughs
    THEN Raise(g, "AttributeError")
    ELSE With(IF Ftype(g) = "Resp" THEN Matches(g, xd, g.troughind)
              ELSE "no", LAMBDA mt :
        IF mt = "IndexError" THEN Raise(g, "IndexError")
        ELSE IF mt = "yes" THEN g
        ELSE IF g.mode = 1
        THEN With(Matches(g, xd, g.rejectPeaks), LAMBDA m :
                IF m = "IndexError" THEN Raise(g, "IndexError")
                ELSE Then(IF m = "yes" THEN Accept(g, i) ELSE g,
                          LAMBDA g1 : PlotSignals(g1, FALSE)))
        ELSE IF g.mode = 2
        THEN With(Matches(g, xd, g.keepPeaks), LAMBDA m :
                IF m = "IndexError" THEN Raise(g, "IndexError")
                ELSE Then(IF m = "yes" THEN Reject(g, i) ELSE g,
                          LAMBDA g1 : PlotSignals(g1, FALSE)))
        ELSE IF g.mode = 5
        THEN OpenDialog(g, [kind |-> "delete", xd |-> xd, i |-> i,
                            rest |-> rest])
        ELSE PlotSignals(g, FALSE))

\* the pick events of one click, in the order of the lines drawn; an
\* exception ends them, and so does a dialog until it is answered
RECURSIVE Picks(_, _)
Picks(g, picks) ==
    IF picks = << >> \/ g.err # "none" THEN g
    ELSE With(OnPick(g, Head(picks).xd, Head(picks).i, Tail(picks)),
              LAMBDA g1 :
            IF Len(g1.dlg) > Len(g.dlg) THEN g1
            ELSE Picks(g1, Tail(picks)))

\* _on_pick after its dialog was answered, and the pick events that were
\* left of the click
AnswerDelete(g, frame, confirmed) ==
    Then(Then(IF confirmed THEN Delete(g, frame.xd, frame.i) ELSE g,
              LAMBDA g1 : PlotSignals(g1, FALSE)),
         LAMBDA g2 : Picks(g2, frame.rest))

\* np.arange(low, high)
Arange(low, high) ==
    IF high <= low THEN << >> ELSE [k \in 1..(high - low) |-> low + k - 1]

\* _on_span_select(xmin, xmax); indmin and indmax are the positions of xmin
\* and xmax in self.time.  np.searchsorted raises ValueError for an array
\* of no dimension.
OnSpanSelect(g, indmin, indmax) ==
    IF g.cur = 0 \/ ~g.hasPeaks THEN Raise(g, "AttributeError")
    ELSE Then(
        IF g.mode = 3
        THEN IF "reject" \in g.zd THEN Raise(g, "ValueError")
             ELSE With(SearchSorted(g.rejectPeaks, indmin), LAMBDA low :
                  With(SearchSorted(g.rejectPeaks, indmax), LAMBDA high :
                     [g EXCEPT
                         !.keepPeaks =
                             SortAppend(@, Slice(g.rejectPeaks, low, high)),
                         !.rejectPeaks = NpDelete(@, Arange(low, high)),
                         !.zd = @ \ {"keep"}]))
        ELSE IF g.mode = 4
        THEN IF "keep" \in g.zd THEN Raise(g, "ValueError")
             ELSE With(SearchSorted(g.keepPeaks, indmin), LAMBDA low :
                  With(SearchSorted(g.keepPeaks, indmax), LAMBDA high :
                     [g EXCEPT
                         !.rejectPeaks =
                             SortAppend(@, Slice(g.keepPeaks, low, high)),
                         !.keepPeaks = NpDelete(@, Arange(low, high)),
                         !.zd = @ \ {"reject"}]))
        ELSE g,
        LAMBDA g1 : PlotSignals(g1, FALSE))

\* _set_thresh: the spinbox holds text; float(text) raises ValueError
\* before anything is computed
SetThresh(g) ==
    IF g.threshold = BadText THEN Raise(g, "ValueError")
    ELSE Then(GetAboveThresh(g, g.threshold),
              LAMBDA g1 : PlotSignals(g1, FALSE))

\* _set_std
SetStd(g) ==
    IF ~g.hasPeaks THEN Raise(g, "AttributeError")
    ELSE IF g.std = BadText THEN Raise(g, "ValueError")
    ELSE With([g EXCEPT !.goodInd = GoodIndOf(g.dir, g.avgOf, g.rows, g.std)],
              LAMBDA g1 :
            IF g1.threshold = BadText THEN Raise(g1, "ValueError")
            ELSE Then(GetAboveThresh(g1, g1.threshold),
                      LAMBDA g2 : PlotSignals(g2, FALSE)))

(***************************************************************************)
(* One PeakDetector window and the events of its user.  While a dialog is  *)
(* open it holds the mouse and the keyboard: it can be answered, and the   *)
(* shortcuts bound with bind_all still call their handlers.                *)
(***************************************************************************)
MaxGuiEvents == 7

MaxDialogs == 2

\* the texts typed into the spinboxes: thousandths and tenths
GuiThreshTexts == {0, 500, 950, BadText}

GuiStdTexts == {5, 25, BadText}

GuiInit ==
    /\ file = << >>
    /\ rec = NoRec
    /\ intact = TRUE
    /\ last = [op |-> "none", args |-> << >>, ok |-> FALSE, err |-> NoErr]
    /\ ed = NoEditor
    /\ ev = NoEvent
    /\ call = NoCall
    /\ result = NoResult
    /\ pf = NoFinder
    /\ gui = GuiNew
    /\ saved = NoSaved

GuiOthers == <<file, rec, intact, last, ed, ev, call, result, pf, saved>>

\* the window is there and may take another event
GuiAwake == gui.open /\ gui.events < MaxGuiEvents

\* the main window takes the mouse and the keys: no dialog is open
GuiIdle == GuiAwake /\ gui.dlg = << >>

\* the dialog of kind kind is the innermost
GuiAsked(kind) ==
    GuiAwake /\ gui.dlg # << >> /\ gui.dlg[Len(gui.dlg)].kind = kind

\* the object as handler name finds it, with the directory d as dir
Started(d, name) ==
    [gui EXCEPT !.lastev = name, !.err = "none", !.found = FALSE,
                !.events = @ + 1] @@ [dir |-> d]

\* the object as the handler leaves it
WithoutDir(g) == [k \in DOMAIN g \ {"dir"} |-> g[k]]

\* the handlers bound to a button or a key test the event with a widget of
\* _init_buttons, which raises AttributeError before a file was opened
Inited(g, F(_)) == IF g.inited THEN F(g) ELSE Raise(g, "AttributeError")

\* _get_file: OPEN FILE, the menu or Ctrl-O; the file dialog opens
GuiGetFile(d) ==
    /\ GuiAwake
    /\ Len(gui.dlg) < MaxDialogs
    /\ gui' = WithoutDir(OpenDialog(Started(d, "get_file"), [kind |-> "open"]))
    /\ UNCHANGED GuiOthers

\* the file dialog is answered: cancelled (0) or with a data file
GuiChooseFile(d) ==
    /\ GuiAsked("open")
    /\ \E f \in 0..Len(DataFiles) :
          gui' = WithoutDir(IF f = 0 THEN CloseDialog(Started(d, "choose_file"))
                 ELSE LoadFile([CloseDialog(Started(d, "choose_file"))
                                   EXCEPT !.fname = f]))
    /\ UNCHANGED GuiOthers

\* _quit: QUIT, the menu or Ctrl-Q; the question opens
GuiQuit(d) ==
    /\ GuiAwake
    /\ Len(gui.dlg) < MaxDialogs
    /\ gui' = WithoutDir(OpenDialog(Started(d, "quit"), [kind |-> "quit"]))
    /\ UNCHANGED GuiOthers

\* "Do you really want to quit?" is answered
GuiAnswerQuit(d) ==
    /\ GuiAsked("quit")
    /\ \E yes \in BOOLEAN :
          gui' = WithoutDir(With(CloseDialog(Started(d, "answer_quit")), LAMBDA g :
                    IF ~yes THEN g
                    ELSE IF g.plotExists THEN CompThen(g, "quit")
                    ELSE Destroy(g)))
    /\ UNCHANGED GuiOthers

\* _autosave: the menu or Ctrl-A
GuiAutosave(d) ==
    /\ GuiAwake
    /\ gui' = WithoutDir(Inited(Started(d, "autosave"),
                     LAMBDA g : [g EXCEPT !.autoSave = ~@]))
    /\ UNCHANGED GuiOthers

\* _warnings: the menu or Ctrl-W
GuiWarnings(d) ==
    /\ GuiAwake
    /\ gui' = WithoutDir(Inited(Started(d, "warnings"),
                     LAMBDA g : [g EXCEPT !.giveWarnings = ~@]))
    /\ UNCHANGED GuiOthers

\* _save_file: SAVE, the menu or Ctrl-S
GuiSaveFile(d) ==
    /\ GuiAwake
    /\ gui' = WithoutDir(Inited(Started(d, "save_file"), SaveFile))
    /\ UNCHANGED GuiOthers

\* _next_file: NEXT or Ctrl-N
GuiNextFile(d) ==
    /\ GuiAwake
    /\ Len(gui.dlg) < MaxDialogs
    /\ gui' = WithoutDir(Inited(Started(d, "next_file"), LAMBDA g : TurnFile(g, 1)))
    /\ UNCHANGED GuiOthers

\* _back_file: BACK or Ctrl-B
GuiBackFile(d) ==
    /\ GuiAwake
    /\ Len(gui.dlg) < MaxDialogs
    /\ gui' = WithoutDir(Inited(Started(d, "back_file"), LAMBDA g : TurnFile(g, -1)))
    /\ UNCHANGED GuiOthers

\* "Peak file changes not saved! Do you want to save?" is answered
GuiAnswerSave(d) ==
    /\ GuiAsked("save")
    /\ \E yes \in BOOLEAN :
          gui' = WithoutDir(With(gui.dlg[Len(gui.dlg)].cont, LAMBDA cont :
                 With(CloseDialog(Started(d, "answer_save")), LAMBDA g :
                    IF yes
                    THEN Then(SaveFile(g), LAMBDA g1 : AfterComp(g1, cont))
                    ELSE AfterComp(g, cont))))
    /\ UNCHANGED GuiOthers

\* a radio button: self.mode is set, and the span selector is visible in
\* the modes 3 and 4
GuiMode(d) ==
    /\ GuiIdle
    /\ gui.inited
    /\ \E m \in 0..5 : gui' = WithoutDir([Started(d, "mode") EXCEPT !.mode = m])
    /\ UNCHANGED GuiOthers

\* the pick events of a click on the point drawn for sample s: one for
\* every line with such a point, in the order drawn, with the position of
\* the point in the line as ind[0]
PicksAt(g, s) ==
    With(SelectSeq(g.shown, LAMBDA xd : s \in SeqSet(xd.idx)), LAMBDA hit :
        [a \in 1..Len(hit) |->
            [xd |-> hit[a],
             i  |-> (CHOOSE k \in 1..Len(hit[a].idx) :
                        /\ hit[a].idx[k] = s
                        /\ \A j \in 1..(k - 1) : hit[a].idx[j] # s) - 1]])

\* the pick events of a click with the view so far out that every point is
\* within the picker's 6 points of it: one for every line that has a point,
\* with ind[0] = 0
PicksAll(g) ==
    With(SelectSeq(g.shown, LAMBDA xd : xd.idx # << >>), LAMBDA hit :
        [a \in 1..Len(hit) |-> [xd |-> hit[a], i |-> 0]])

\* the clicks that pick a line
GuiClicks(g) ==
    {PicksAt(g, s) :
        s \in UNION {SeqSet(g.shown[a].idx) : a \in 1..Len(g.shown)}}
    \cup {PicksAll(g)}

\* a click on the lower plot; _on_pick returns at once for another button
\* than the left one
GuiPick(d) ==
    /\ GuiIdle
    /\ \E picks \in GuiClicks(gui), button \in {1, 3} :
          /\ picks # << >>
          /\ gui' = WithoutDir(IF button # 1 THEN Started(d, "pick")
                    ELSE Picks(Started(d, "pick"), picks))
    /\ UNCHANGED GuiOthers

\* "Do you really want to delete that peak?" is answered
GuiAnswerDelete(d) ==
    /\ GuiAsked("delete")
    /\ \E confirmed \in BOOLEAN :
          gui' = WithoutDir(AnswerDelete(CloseDialog(Started(d, "answer_delete")),
                              gui.dlg[Len(gui.dlg)], confirmed))
    /\ UNCHANGED GuiOthers

\* the spans the selector reports: the positions of xmin < xmax in
\* self.time for a span of one second (minspan) or more, which holds fs
\* samples unless it passes an end of the signal
GuiSpans(d, g) ==
    IF g.cur = 0 THEN {<<0, 0>>}
    ELSE LET len == Len(d.load[g.cur].time)
             at  == {0, len} \cup
                    UNION {{p, p + 1} : p \in SeqSet(g.peakind)}
         IN  {s \in at \X at :
                 /\ s[1] <= s[2] /\ s[2] <= len
                 /\ \/ s[1] = 0
                    \/ s[2] = len
                    \/ s[2] - s[1] >= d.load[g.cur].fs}

\* a span dragged over the lower plot with "Multiple peak accept" or
\* "Multiple peak reject" selected
GuiSpanSelect(d) ==
    /\ GuiIdle
    /\ gui.inited
    /\ gui.mode \in {3, 4}
    /\ \E s \in GuiSpans(d, gui) :
          gui' = WithoutDir(OnSpanSelect(Started(d, "span_select"), s[1], s[2]))
    /\ UNCHANGED GuiOthers

\* a text is typed into the threshold spinbox
GuiTypeThresh(d) ==
    /\ GuiIdle
    /\ gui.spinShown
    /\ \E text \in GuiThreshTexts :
          gui' = WithoutDir([Started(d, "type_thresh") EXCEPT !.threshold = text])
    /\ UNCHANGED GuiOthers

\* a text is typed into the SD spinbox
GuiTypeStd(d) ==
    /\ GuiIdle
    /\ gui.spinShown
    /\ \E text \in GuiStdTexts :
          gui' = WithoutDir([Started(d, "type_std") EXCEPT !.std = text])
    /\ UNCHANGED GuiOthers

\* _set_thresh: Return in the threshold spinbox, shown for ECG files only
GuiSetThresh(d) ==
    /\ GuiIdle
    /\ gui.spinShown
    /\ gui' = WithoutDir(SetThresh(Started(d, "set_thresh")))
    /\ UNCHANGED GuiOthers

\* _set_std: Return in the SD spinbox, shown for ECG files only
GuiSetStd(d) ==
    /\ GuiIdle
    /\ gui.spinShown
    /\ gui' = WithoutDir(SetStd(Started(d, "set_std")))
    /\ UNCHANGED GuiOthers

GuiNext ==
    \E d \in {GuiDir} :
       \/ GuiGetFile(d)
       \/ GuiChooseFile(d)
       \/ GuiQuit(d)
       \/ GuiAnswerQuit(d)
       \/ GuiAutosave(d)
       \/ GuiWarnings(d)
       \/ GuiSaveFile(d)
       \/ GuiNextFile(d)
       \/ GuiBackFile(d)
       \/ GuiAnswerSave(d)
       \/ GuiMode(d)
       \/ GuiPick(d)
       \/ GuiAnswerDelete(d)
       \/ GuiSpanSelect(d)
       \/ GuiTypeThresh(d)
       \/ GuiTypeStd(d)
       \/ GuiSetThresh(d)
       \/ GuiSetStd(d)

GuiSpec == GuiInit /\ [][GuiNext]_vars

(***************************************************************************)
(* Properties                                                              *)
(***************************************************************************)
LoggedOps ==
    {"filter_physio", "interpolate_physio", "peakfind_physio",
     "reject_peaks", "delete_peaks", "add_peaks"}

\* the four operations that detect or correct peaks
PeakOps == {"peakfind_physio"} \cup Relevant

StrictlyIncreasing(s) == \A i \in 1..(Len(s) - 1) : s[i] < s[i + 1]

InRange(r, s) == \A i \in 1..Len(s) : 0 <= s[i] /\ s[i] < Len(r.data)

\* one trough t per consecutive pair of effective peaks, p[i] < t <= p[i+1]
TroughsBetweenPeaks(r) ==
    LET p == PeaksOf(r)
    IN  (Len(p) >= 2 /\ StrictlyIncreasing(p)) =>
            /\ Len(r.troughs) = Len(p) - 1
            /\ \A i \in 1..(Len(p) - 1) :
                  p[i] < r.troughs[i] /\ r.troughs[i] <= p[i + 1]

\* C1: whenever a record that came out of peakfind_physio, reject_peaks,
\* delete_peaks or add_peaks, or the editor's working record after any undo
\* calls, has n >= 2 strictly increasing effective peaks, its troughs hold
\* exactly one index t per consecutive pair, with p[i] < t <= p[i+1].
C1_TroughPerPair ==
    /\ (rec # NoRec /\ last.ok /\ last.op \in PeakOps) =>
           TroughsBetweenPeaks(rec)
    /\ ed.open => TroughsBetweenPeaks(ed.data)

\* C2: an undo that immediately follows one correction made in the editor
\* leaves the working record's stored peaks and rejected indices equal to
\* their values before that correction.
C2_UndoRestores ==
    (ed.open /\ ev.kind = "undo" /\ ev.afterEdit) =>
        /\ ed.data.peaks = ev.pre.peaks
        /\ ed.data.reject = ev.pre.reject

\* C3: replaying the history of a record built by a loader and logged
\* operations yields a record with the same samples, sampling rate, effective
\* peaks, troughs and history.
C3_ReplayReproduces ==
    [][(last'.op = "load_history" /\ saved.exists) =>
          /\ last'.ok
          /\ rec'.data = saved.of.data
          /\ rec'.fs = saved.of.fs
          /\ PeaksOf(rec') = PeaksOf(saved.of)
          /\ rec'.troughs = saved.of.troughs
          /\ rec'.history = saved.of.history]_vars

IsPrefix(h, g) == Len(h) <= Len(g) /\ SubSeq(g, 1, Len(h)) = h

\* C4: a returning logged operation (fmri_ecg_clean, which make_operation
\* wraps as it wraps the other six, among them) yields the input's history
\* followed by exactly one entry naming it; the edits applied when the
\* editor closes only append correction entries; inside the editor the
\* history is left alone, grows by one correction entry, or loses its last
\* entry to an undo.
C4_LogAppendOnly ==
    [][ /\ (/\ last'.ok
            /\ last'.op \in LoggedOps \cup {"fmri_ecg_clean"}
            /\ rec' # rec /\ rec' # NoRec) =>
              /\ Len(rec'.history) = Len(rec.history) + 1
              /\ IsPrefix(rec.history, rec'.history)
              /\ rec'.history[Len(rec'.history)].name = last'.op
        /\ (rec' # rec /\ rec' # NoRec /\ last'.op = "edit_physio") =>
              /\ IsPrefix(rec.history, rec'.history)
              /\ \A i \in (Len(rec.history) + 1)..Len(rec'.history) :
                    rec'.history[i].name \in Relevant
        /\ (ed.open /\ ed'.open) =>
              \/ ed'.data.history = ed.data.history
              \/ /\ ev'.kind = "edit"
                 /\ Len(ed'.data.history) = Len(ed.data.history) + 1
                 /\ IsPrefix(ed.data.history, ed'.data.history)
                 /\ ed'.data.history[Len(ed'.data.history)].name \in Relevant
              \/ /\ ev'.kind = "undo"
                 /\ Len(ed.data.history) > 0
                 /\ ed'.data.history =
                       SubSeq(ed.data.history, 1, Len(ed.data.history) - 1)
      ]_vars

\* the stored peaks that are not rejected, every one once, in increasing
\* order
EffectivePeaks(r) ==
    PeaksOf(r) = SortedOfSet(SeqSet(r.peaks) \ SeqSet(r.reject))

\* C6: the effective peaks of a record, and of the editor's working record,
\* are exactly its stored peaks that are not rejected, in strictly
\* increasing order and every index once.
C6_EffectivePeaks ==
    /\ rec # NoRec => EffectivePeaks(rec)
    /\ ed.open => EffectivePeaks(ed.data)

\* C8: a call of peakfind_physio, reject_peaks, delete_peaks or add_peaks,
\* returning or raising, has not changed the peaks, rejected indices,
\* troughs or history of the record passed to it.
C8_InputUnchanged == last.op \in PeakOps => intact

\* delete_peaks has been called on a record with peaks and has left it
\* intact
C8_Witness ==
    /\ rec # NoRec
    /\ last.op = "delete_peaks"
    /\ rec.peaks # << >>
    /\ SeqSet(last.args) \subseteq SeqSet(rec.peaks)
    /\ intact

\* C9: add_peaks with an index that is already a stored peak returns a
\* record with the same peaks, rejected indices and troughs, and the same
\* history.
C9_AddExistingNoOp ==
    rec # NoRec =>
        \A i \in SeqSet(rec.peaks) :
            \E res \in {AddPeaks(rec, <<i>>)} :
                /\ res.ok
                /\ res.out.peaks = rec.peaks
                /\ res.out.reject = rec.reject
                /\ res.out.troughs = rec.troughs
                /\ res.out.history = rec.history

\* C10: rejecting an effective peak twice in a row yields the same rejected
\* set and effective peaks as rejecting it once.
C10_RejectTwice ==
    rec # NoRec =>
        \A i \in SeqSet(PeaksOf(rec)) :
            \E once \in {RejectPeaks(rec, <<i>>)} :
                /\ once.ok
                /\ \E twice \in {RejectPeaks(once.out, <<i>>)} :
                      /\ twice.ok
                      /\ SeqSet(twice.out.reject) = SeqSet(once.out.reject)
                      /\ PeaksOf(twice.out) = PeaksOf(once.out)

\* a step of the editor's undo callback
UndoStep ==
    /\ ed.open /\ ed'.open
    /\ ed'.events = ed.events + 1
    /\ ev'.kind = "undo"

NoCorrectionOnTop(h) == h = << >> \/ h[Len(h)].name \notin Relevant

\* C11: an undo on a working record whose history is empty, or ends with an
\* entry that is no correction, raises nothing and leaves the working
\* record's peaks, rejected indices, troughs and history as they were.
C11_UndoWithoutCorrection ==
    [][(UndoStep /\ NoCorrectionOnTop(ed.data.history)) =>
          /\ ~ev'.raised
          /\ ed'.data.peaks = ed.data.peaks
          /\ ed'.data.reject = ed.data.reject
          /\ ed'.data.troughs = ed.data.troughs
          /\ ed'.data.history = ed.data.history]_vars

\* an entry no name of the package answers to, or a first loading entry that
\* names no source
Unreplayable(h) ==
    \/ \E i \in 1..Len(h) : h[i].name \notin Exported
    \/ h # << >> /\ h[1].name = "load_physio" /\ h[1].args = << >>

\* C12: replaying a history with an entry of unknown name, or with a first
\* entry whose source cannot be resolved (it names none, or a file that is
\* not there), raises to the caller and returns no record.
C12_ReplayFailsLoudly ==
    rec # NoRec =>
        \A nd \in NanDistances, exists \in BOOLEAN :
            (Unreplayable(rec.history) \/
             (rec.history # << >> /\ ~exists)) =>
                \E res \in {LoadHistory(rec.history, file, exists, nd)} :
                    res.raised /\ ~res.ok

\* every named parameter of the signature that is not excluded
NamedParameters(c) ==
    (SeqSet(c.argspec.args) \cup SeqSet(c.argspec.kwonlyargs)) \ c.exclude

\* C17: the recorded mapping holds every named parameter of the calling
\* function that is not excluded, keyword-only ones included, each with the
\* value it has at the time of the call, arrays as plain lists.
C17_RecordsEveryParameter ==
    call.fn = "get_call_func" =>
        /\ DOMAIN result.provided = NamedParameters(call)
        /\ \A k \in NamedParameters(call) \cap DOMAIN result.provided :
              result.provided[k] =
                  IF call.serializable THEN ToList(call.locals[k])
                  ELSE call.locals[k]

\* C13: a record that comes from a loader has no peaks, rejected indices or
\* troughs, and a history of exactly one entry, which names the loader and
\* holds its arguments (the source at least).
C13_LoaderRecord ==
    (last.op = "load_physio" /\ rec # NoRec) =>
        /\ rec.peaks = << >> /\ rec.reject = << >> /\ rec.troughs = << >>
        /\ Len(rec.history) = 1
        /\ rec.history[1].name = "load_physio"
        /\ rec.history[1].args # << >>

\* C14: a detection called with a relative threshold below 0 or above 1,
\* through get_extrema or through peakfind_physio, raises an error about
\* the threshold and returns no detections.
C14_ThresholdRange ==
    (call.fn \in {"get_extrema", "peakfind_physio"} /\
     (call.tnum < 0 \/ call.tnum > 10)) =>
        /\ ~result.ok /\ result.v = << >>
        /\ call.fn = "peakfind_physio" => result.err = ThresholdError

\* C15: when fewer than two candidate peaks come out of the first pass,
\* peakfind_physio raises an error about the extrema before the second
\* find_peaks call, and no peaks or troughs are stored.
C15_TooFewCandidates ==
    (call.fn = "peakfind_physio" /\ call.coarse < 2) =>
        /\ ~result.ok /\ result.v = << >> /\ result.troughs = << >>
        /\ ~result.refined

\* some cutoff is at or above fs / 2
AtOrAboveNyquist(c) ==
    \E k \in 1..Len(c.cutoffs) : 2 * c.cutoffs[k] >= c.fs

\* C16 as claimed: filter_physio raises whenever a cutoff is at or above
\* fs / 2, and with a known sampling rate and every cutoff below fs / 2 it
\* returns a record with as many samples as its input.
C16_FilterNyquist ==
    call.fn = "filter_physio" =>
        /\ (call.fs # NaN /\ AtOrAboveNyquist(call)) => ~result.ok
        /\ (call.fs # NaN /\ ~AtOrAboveNyquist(call)) =>
              result.ok /\ Len(result.v) = Len(call.data)

\* the cutoffs a call may hand over: one for a low- or highpass, an
\* increasing pair for a bandpass or bandstop, all above 0
ProperCutoffs(c) ==
    /\ c.method \in ValidMethods
    /\ Len(c.cutoffs) = IF c.method \in BandMethods THEN 2 ELSE 1
    /\ \A k \in 1..Len(c.cutoffs) : c.cutoffs[k] > 0
    /\ \A k \in 1..(Len(c.cutoffs) - 1) : c.cutoffs[k] < c.cutoffs[k + 1]

\* C16, amended: filter_physio raises whenever a cutoff is at or above
\* fs / 2; with a known sampling rate, a valid method with its number of
\* cutoffs, each above 0 and below fs / 2 and a pair in increasing order,
\* and more samples than the padding of filtfilt, it returns a record with
\* as many samples as its input.
C16_FilterNyquistLongEnough ==
    call.fn = "filter_physio" =>
        /\ (call.fs # NaN /\ AtOrAboveNyquist(call)) => ~result.ok
        /\ (/\ call.fs # NaN
            /\ ~AtOrAboveNyquist(call)
            /\ ProperCutoffs(call)
            /\ Len(call.data) > PadLen(call.method, call.order)) =>
              result.ok /\ Len(result.v) = Len(call.data)

\* a bandpass call with both cutoffs below Nyquist, on a record one sample
\* longer than the padding, has returned a record of the same length
C16_Witness ==
    /\ call.fn = "filter_physio"
    /\ call.method = "bandpass"
    /\ call.fs # NaN /\ ~AtOrAboveNyquist(call)
    /\ result.ok
    /\ Len(result.v) = PadLen(call.method, call.order) + 1

\* k applied corrections followed by k undo calls, and nothing else
Undone(trail, k) ==
    /\ Len(trail) = 2 * k
    /\ \A i \in 1..k : trail[i] = "edit" /\ trail[k + i] = "undo"

AllUndone(trail) == \E k \in 0..Len(trail) : Undone(trail, k)

SamePeaksRejectLog(a, b) ==
    /\ a.peaks = b.peaks
    /\ SeqSet(a.reject) = SeqSet(b.reject)
    /\ a.history = b.history

\* C18: in an editor session, after k >= 0 applied corrections followed by
\* k undo calls the working record has the stored peaks, rejected indices
\* and history of the session's start, and one more undo changes none of
\* them.
C18_UndoAll ==
    [][ /\ (ed'.open /\ AllUndone(ed'.trail)) =>
              SamePeaksRejectLog(ed'.data, EditorInit(ed'.orig).data)
        /\ (UndoStep /\ AllUndone(ed.trail)) =>
              SamePeaksRejectLog(ed'.data, ed.data)
      ]_vars

\* the troughs check_troughs computes from the samples and the effective
\* peaks alone
TroughsFromPeaks(r) ==
    IF Len(PeaksOf(r)) = 0 THEN << >>
    ELSE CheckTroughs(r.data, PeaksOf(r), << >>).v

\* C19: the troughs of a record are a function of its samples and its
\* effective peaks, the same for every record whatever reject, delete, add
\* and undo calls produced it: any two records with the same samples and
\* effective peaks have the same troughs.
C19_TroughsFunctionOfPeaks ==
    /\ (rec # NoRec /\ last.ok /\ last.op \in Relevant) =>
           rec.troughs = TroughsFromPeaks(rec)
    /\ ed.open => ed.data.troughs = TroughsFromPeaks(ed.data)

\* the smallest sample with an index in lo + 1 .. hi
MinOver(data, lo, hi) ==
    CHOOSE v \in {Idx(data, j) : j \in (lo + 1)..hi} :
        \A j \in (lo + 1)..hi : v <= Idx(data, j)

\* C20: for two consecutive peaks p[i], p[i+1] with no trough handed over
\* in (p[i], p[i+1]], check_troughs returns for the pair an index t with
\* p[i] < t <= p[i+1] whose sample is the minimum over (p[i], p[i+1]].
C20_FillsHalfOpenMinimum ==
    (call.fn = "check_troughs" /\ result.ok) =>
        \A f \in 1..(Len(call.peaks) - 1) :
            (\A k \in 1..Len(call.troughs) :
                ~(call.peaks[f] < call.troughs[k] /\
                  call.troughs[k] <= call.peaks[f + 1])) =>
                /\ call.peaks[f] < result.v[f]
                /\ result.v[f] <= call.peaks[f + 1]
                /\ Idx(call.data, result.v[f]) =
                      MinOver(call.data, call.peaks[f], call.peaks[f + 1])

\* the troughs handed over that lie strictly between peaks f and f + 1
\* (f counted from 1)
TroughsInGap(c, f) ==
    {c.troughs[k] : k \in 1..Len(c.troughs)} \cap
        ((c.peaks[f] + 1)..(c.peaks[f + 1] - 1))

\* C21: when more than one trough handed over lies between two consecutive
\* peaks, check_troughs keeps for the pair one of them whose sample is the
\* smallest among them.
C21_KeepsSmallestTrough ==
    (call.fn = "check_troughs" /\ result.ok) =>
        \A f \in 1..(Len(call.peaks) - 1) :
            Cardinality(TroughsInGap(call, f)) > 1 =>
                /\ result.v[f] \in TroughsInGap(call, f)
                /\ \A t \in TroughsInGap(call, f) :
                      Idx(call.data, result.v[f]) <= Idx(call.data, t)

\* the editor window closes: edit_physio goes on after plt.show returned
CloseStep == ed.open /\ ~ed'.open

SamePeaksRejectEffective(a, b) ==
    /\ a.peaks = b.peaks
    /\ SeqSet(a.reject) = SeqSet(b.reject)
    /\ PeaksOf(a) = PeaksOf(b)

\* C22: when the editor is closed after any sequence of edits and undos and
\* edit_physio returns a record, that record has the stored peaks, the
\* rejected set and the effective peaks of the editor's working record at
\* close.
C22_ReturnedEqualsWorking ==
    [][(CloseStep /\ last'.op = "edit_physio" /\ last'.ok) =>
           SamePeaksRejectEffective(rec', ed.data)]_vars

\* C23: every operation name in the log of a record returned by edit_physio
\* is a name replay can resolve (getattr(peakdet, name) finds it), so that
\* the replay of the log does not stop at an unknown name.
C23_LoggedNamesResolve ==
    (last.op = "edit_physio" /\ last.ok) =>
        \A i \in 1..Len(rec.history) : rec.history[i].name \in Exported

\* C24: the copy check_physio makes through new_physio_like for the
\* correction operations carries the record's sampling rate, log, stored
\* peaks, rejected indices and troughs.
C24_CopyCarriesMetadata ==
    rec # NoRec =>
        \A cp \in {CheckPhysio(rec, FALSE, TRUE).rec} :
            /\ cp.fs = rec.fs
            /\ cp.history = rec.history
            /\ cp.peaks = rec.peaks
            /\ cp.reject = rec.reject
            /\ cp.troughs = rec.troughs

\* C25: min_peak_dist returns a sorted subset of the candidates in which
\* consecutive indices are more than dist apart, and every candidate it
\* drops has a kept candidate within dist of it whose sample is at least as
\* large (peaks) or at least as small (troughs).
C25_MinPeakDist ==
    call.fn = "min_peak_dist" =>
        /\ StrictlyIncreasing(result.v)
        /\ SeqSet(result.v) \subseteq SeqSet(call.locs)
        /\ \A k \in 1..(Len(result.v) - 1) :
              result.v[k + 1] - result.v[k] > call.dist
        /\ \A c \in SeqSet(call.locs) \ SeqSet(result.v) :
              \E q \in SeqSet(result.v) :
                  /\ q - c <= call.dist
                  /\ c - q <= call.dist
                  /\ IF call.peaks
                     THEN Idx(call.data, q) >= Idx(call.data, c)
                     ELSE Idx(call.data, q) <= Idx(call.data, c)

\* whether sample i passes the amplitude threshold thresh = tnum / 10 of
\* get_extrema: above thresh * (p95 - p5) for peaks, below
\* thresh * (p5 - p95) for troughs
PassesThreshold(data, peaks, tnum, i) ==
    IF peaks
    THEN 1000 * Idx(data, i) >
             tnum * (Percentile100(data, 95) - Percentile100(data, 5))
    ELSE 1000 * Idx(data, i) <
             tnum * (Percentile100(data, 5) - Percentile100(data, 95))

\* sample i is the first sample of a plateau-or-point maximum (peaks) or
\* minimum (troughs): strictly beyond sample i - 1, followed by a run of
\* equal samples that ends in a sample strictly on the other side
FirstOfExtremum(data, peaks, i) ==
    /\ i >= 1
    /\ IF peaks THEN Idx(data, i) > Idx(data, i - 1)
       ELSE Idx(data, i) < Idx(data, i - 1)
    /\ \E j \in (i + 1)..(Len(data) - 1) :
          /\ \A k \in i..(j - 1) : Idx(data, k) = Idx(data, i)
          /\ IF peaks THEN Idx(data, j) < Idx(data, i)
             ELSE Idx(data, j) > Idx(data, i)

\* C26: for every threshold in [0, 1] get_extrema returns exactly the
\* indices that pass the threshold and are the first sample of a
\* plateau-or-point maximum (peaks) or minimum (troughs).
C26_ExtremaExact ==
    (call.fn = "get_extrema" /\ call.tnum \in 0..10) =>
        /\ result.ok
        /\ SeqSet(result.v) =
              {i \in 0..(Len(call.data) - 1) :
                  /\ PassesThreshold(call.data, call.peaks, call.tnum, i)
                  /\ FirstOfExtremum(call.data, call.peaks, i)}

\* what a PeakFinder constructed anew from the same input, sampling rate and
\* column holds
SameAsFresh(p) ==
    \A fresh \in {PeakFinderNew(p.dinput, p.rawfs, p.col)} :
        /\ p.data = fresh.data
        /\ p.fs = fresh.fs
        /\ p.peakinds = fresh.peakinds
        /\ p.troughinds = fresh.troughinds
        /\ p.rejected = fresh.rejected

\* C27: after any sequence of interpolate, filter and get_peaks calls on a
\* PeakFinder, reset() leaves no peaks and no troughs and the data without
\* filtering, and reset(hard=True) leaves data, sampling rate, peaks,
\* troughs and rejected peaks as those of a freshly constructed object.
C27_ResetRestores ==
    (pf.built /\ pf.rejected = << >>) =>
        /\ pf.lastop = "reset" =>
              /\ pf.peakinds = << >>
              /\ pf.troughinds = << >>
              /\ pf.data = pf.clean
        /\ pf.lastop = "hard_reset" => SameAsFresh(pf)

\* C29: the mutual calls of get_peaks and get_troughs end by themselves: no
\* more than three of them run at a time (get_troughs, the get_peaks it
\* calls for want of peaks, and the get_troughs that one calls), and the
\* interpreter's recursion limit is never hit.
C29_MutualCallsEnd ==
    pf.built => (Len(pf.stack) <= 3 /\ pf.err # "RecursionError")


\* the effective peaks a removal should leave: delete_peaks takes the
\* indices out of the stored peaks, reject_peaks adds them to the rejected
PeaksLeftByDelete(r, x) == Masked(SetDiff1d(r.peaks, x), r.reject)

PeaksLeftByReject(r, x) == Masked(r.peaks, r.reject \o x)

\* C28: a delete_peaks or reject_peaks call that leaves no or one effective
\* peak returns, and the record it returns has no troughs.
C28_FewPeaksLeft ==
    rec # NoRec =>
        \A x \in Removals :
            /\ Len(PeaksLeftByDelete(rec, x)) <= 1 =>
                  \E res \in {DeletePeaks(rec, x)} :
                      res.ok /\ res.out.troughs = << >>
            /\ Len(PeaksLeftByReject(rec, x)) <= 1 =>
                  \E res \in {RejectPeaks(rec, x)} :
                      res.ok /\ res.out.troughs = << >>

\* keepPeaks and rejectPeaks share no peak and make up peakind
Partition(g) ==
    /\ SeqSet(g.keepPeaks) \cap SeqSet(g.rejectPeaks) = {}
    /\ Sorted(g.keepPeaks \o g.rejectPeaks) = g.peakind

\* the handlers of the accept, reject, multiple accept, multiple reject and
\* delete events and of the threshold and SD spinboxes
PeakEvents ==
    {"pick", "answer_delete", "span_select", "set_thresh", "set_std"}

====
